---- MODULE Spec2Model ----
(***************************************************************************)
(* A model of the command-execution / session-reuse layer of               *)
(* vscode-container-use:                                                   *)
(*   - the Session Terminal Manager (commands/terminal.ts revision with    *)
(*     busy detection, and the watch command), specification Spec;         *)
(*   - the Process Invoker (ContainerUseCli.run over child_process.exec    *)
(*     and ContainerUseCli.executeCommand over child_process.spawn),       *)
(*     specification SpecInvoker.                                          *)
(* Every action is one run-to-completion segment of a handler: the code    *)
(* between two awaits of the single-threaded event loop.                   *)
(***************************************************************************)
EXTENDS Integers, Sequences, FiniteSets, TLC

\* ------------------------------------------------------------------ bounds

\* Number of command invocations (terminal or watch) in one editor session.
NumCalls == 3

\* Longest stdout or stderr a child writes, in characters.
MaxStreamLen == 3
\* Largest exit code a child ends with (a real one goes up to 255).
MaxExitCode == 2
\* The list output under test: words in a line, spaces in a row, lines.
MaxWords == 5
MaxRun == 2
MaxLines == 4

\* ------------------------------------------------- Session Terminal Manager

\* TERMINAL_CONFIG and MESSAGES of the terminal command.  Texts are tuples of
\* tokens so that `cu terminal ${environmentId}` is a text like the others.
TERMINAL_NAME == "Container Use"
CTRL_C == <<"\\x03">>
CLEAR_LINE == <<"\\x15">>
EXIT_COMMAND == <<"exit">>
CLEAR_COMMAND == <<"clear">>
INTERRUPT_PROCESS == "Interrupt Process"
CANCEL == "Cancel"
\* showWarningMessage resolves to the chosen item, or undefined when dismissed.
DISMISSED == "undefined"
PromptAnswers == {INTERRUPT_PROCESS, CANCEL, DISMISSED}

EnvironmentIds == {"env-1", "env-2"}
TerminalCommandText(environmentId) == <<"cu", "terminal", environmentId>>
WATCH_COMMAND == <<"cu", "watch">>
NoText == <<>>

Calls == 1..NumCalls
\* Terminal 0 is a shell of the user's own, open all along under another
\* name; each call creates at most one terminal, so ids 1..NumCalls suffice
\* for the created ones.
UserTerminal == 0
TermIds == 0..NumCalls
NoTerminal == -1

\* terminal.shellIntegration: absent, or an object whose executeCommand is a
\* method of the host API (always defined on the object) and whose cwd is
\* undefined until the shell reports one.
NoShellIntegration == [present |-> FALSE, executeCommand |-> "undefined", cwd |-> "undefined"]
ShellIntegration(cwd) == [present |-> TRUE, executeCommand |-> "function", cwd |-> cwd]

VARIABLES
    terminals,   \* vscode.window.terminals: the open terminals, oldest first
    term,        \* per terminal id: name, shellIntegration, running, created
    nextId,      \* id the next createTerminal returns
    call,        \* per invocation: pc, kind, environmentId, terminal, isNewlyCreated
    log,         \* everything the calls did, in order
    inv,         \* Process Invoker: the invocation in progress
    child,       \* Process Invoker: the child process
    result,      \* Process Invoker: the value the promise settled with
    line,        \* Tabular Output Parser: one line of the list output
    lines,       \* Tabular Output Parser: the lines of the list output
    parsed,      \* Tabular Output Parser: what the last operation returned
    probe,       \* availability check: the text it requires, what it returned
    cmd,         \* environment commands: the invocation in progress
    install,     \* installation checks: the preference, the checks, the notices
    files        \* workspace file commands: the file, the invocation in progress

termVars == <<terminals, term, nextId, call, log>>
invokerVars == <<inv, child, result>>
parserVars == <<line, lines, parsed>>
probeVars == <<probe>>
uiVars == <<cmd, install, files>>
vars == <<terminals, term, nextId, call, log, inv, child, result, line, lines, parsed, probe,
          cmd, install, files>>

IsOpenIn(list, t) == \E k \in 1..Len(list) : list[k] = t
IsOpen(t) == IsOpenIn(terminals, t)

\* One thing a call did: op is find, create, probe, prompt, answer, send, timer
\* or show; live says whether the terminal was open when it was done.
Entry(i, op, t, text, addNewLine, live) ==
    [inv |-> i, op |-> op, term |-> t, text |-> text,
     addNewLine |-> addNewLine, live |-> live]

\* terminal.sendText(text, addNewLine) and terminal.show(): fire-and-forget
\* calls on the handle the call holds.
SendText(i, t, text, addNewLine, live) == Entry(i, "send", t, text, addNewLine, live)
ShowTerminal(i, t, live) == Entry(i, "show", t, NoText, FALSE, live)

\* vscode.window.terminals.find(terminal => terminal.name === NAME)
FindTerminalByName(name) ==
    LET hits == {k \in 1..Len(terminals) : term[terminals[k]].name = name}
    IN  IF hits = {} THEN NoTerminal
        ELSE terminals[CHOOSE k \in hits : \A m \in hits : k <= m]

IsTerminalBusy(terminal) ==
    LET shellIntegration == terminal.shellIntegration
        hasActiveExecution == shellIntegration.executeCommand # "undefined"
    IN  IF shellIntegration.present
        THEN hasActiveExecution /\ shellIntegration.cwd # "undefined"
        ELSE FALSE

\* `!isNewlyCreated && isTerminalBusy(terminal)`: && evaluates isTerminalBusy
\* only for a terminal that was found, not created.
ProbesAlways(isNewlyCreated) == TRUE
Probes(isNewlyCreated) == ~isNewlyCreated

MustHandleBusy(isNewlyCreated, terminal) ==
    Probes(isNewlyCreated) /\ IsTerminalBusy(terminal)

\* handleBusyTerminal: `action === MESSAGES.INTERRUPT_PROCESS`
ShouldProceedUnlessCancel(action) == action # CANCEL
ShouldProceed(action) == action = INTERRUPT_PROCESS

\* openTerminalForEnvironment: `if (!shouldProceed) { return; }` before the send.
SendsCommandAnyway(shouldProceed) == TRUE
SendsCommand(shouldProceed) == shouldProceed

\* handleBusyTerminal's sends, each followed by its settle delay (ms).
InterruptionSequenceOneInterrupt ==
    << [text |-> CTRL_C, addNewLine |-> FALSE, delay |-> "100"],
       [text |-> CLEAR_LINE, addNewLine |-> FALSE, delay |-> "100"],
       [text |-> EXIT_COMMAND, addNewLine |-> TRUE, delay |-> "200"],
       [text |-> CLEAR_COMMAND, addNewLine |-> TRUE, delay |-> "200"] >>
InterruptionSequence ==
    << [text |-> CTRL_C, addNewLine |-> FALSE, delay |-> "100"],
       [text |-> CTRL_C, addNewLine |-> FALSE, delay |-> "100"],
       [text |-> CLEAR_LINE, addNewLine |-> FALSE, delay |-> "100"],
       [text |-> EXIT_COMMAND, addNewLine |-> TRUE, delay |-> "200"],
       [text |-> CLEAR_COMMAND, addNewLine |-> TRUE, delay |-> "200"] >>

\* ------------------------------------------------------- Process Invoker

\* A string is a sequence of characters; a message the invoker or the runtime
\* makes up is a sequence whose first element is the fixed part of its text.
Chars == {" ", "\n", "k"}
IsWhitespace(c) == c \in {" ", "\n"}

RECURSIVE TrimStart(_)
TrimStart(str) ==
    IF str = <<>> THEN <<>>
    ELSE IF IsWhitespace(Head(str)) THEN TrimStart(Tail(str)) ELSE str

RECURSIVE TrimEnd(_)
TrimEnd(str) ==
    IF str = <<>> THEN <<>>
    ELSE IF IsWhitespace(str[Len(str)]) THEN TrimEnd(SubSeq(str, 1, Len(str) - 1))
    ELSE str

\* String.prototype.trim
Trim(str) == TrimEnd(TrimStart(str))

ExitCodes == 0..MaxExitCode
\* error.code of a child that a signal ended: null.
NoCode == -1
\* error.code of a spawn failure is the string 'ENOENT'; it stands here as the
\* errno of that error, which no exit code equals.
ENOENT == -2
EXIT_SUCCESS == 0
EXIT_ERROR == 1
\* parseEnvironmentLine: `parts.length < 2`.
MIN_COLUMNS == 2

\* CLI_CONFIG.DEFAULT_TIMEOUT of run, and the constructor's timeouts of the
\* spawn-based cli (its default, and a shorter one a caller passes).
DEFAULT_TIMEOUT == 30000
CliTimeouts == {10000, 5000}
SecondsText(ms) ==
    CASE ms = 30000 -> "30" [] ms = 10000 -> "10" [] ms = 5000 -> "5" [] OTHER -> "?"

\* `${code}` in a message.
CodeText(code) ==
    CASE code = NoCode -> "null" [] code = 0 -> "0" [] code = 1 -> "1"
      [] code = 2 -> "2" [] code = 3 -> "3" [] OTHER -> "n"

\* The promise of an invocation before it settles.
Pending == [kind |-> "none"]

\* What child_process.exec rejects with.  A child that ended non-zero or by a
\* signal: `Command failed: ${cmd}\n${stderr}`, error.code the exit code (null
\* after a signal), and promisify attaches the captured stdout and stderr.
ExecError(code, stdout, stderr) ==
    [message |-> <<"Command failed: cu\n">> \o stderr, code |-> code,
     hasStreams |-> TRUE, stdout |-> stdout, stderr |-> stderr]
\* A child that could not be spawned (shell or cwd missing): nothing captured.
SpawnError ==
    [message |-> <<"spawn ENOENT">>, code |-> ENOENT,
     hasStreams |-> TRUE, stdout |-> <<>>, stderr |-> <<>>]
\* exec or spawn throwing before a child exists: an Error without streams.
ThrownError ==
    [message |-> <<"The argument is invalid">>, code |-> NoCode,
     hasStreams |-> FALSE, stdout |-> <<>>, stderr |-> <<>>]

\* `a || b` on strings: the first unless it is empty (or undefined).
OrElse(a, b) == IF a # <<>> THEN a ELSE b

\* run: the value returned after `await execAsync(...)` resolved.
RunSuccess(stdout, stderr) ==
    [kind |-> "CommandResult", stdout |-> Trim(stdout), stderr |-> Trim(stderr),
     exitCode |-> EXIT_SUCCESS, success |-> TRUE]

\* run: the value returned from the catch block.
RunFailureExitCodeOne(error) ==
    [kind |-> "CommandResult",
     stdout |-> IF error.hasStreams THEN Trim(error.stdout) ELSE <<>>,
     stderr |-> OrElse(IF error.hasStreams THEN Trim(error.stderr) ELSE <<>>,
                       OrElse(error.message, <<"Unknown error">>)),
     exitCode |-> EXIT_ERROR,
     success |-> FALSE]
RunFailure(error) ==
    [kind |-> "CommandResult",
     stdout |-> IF error.hasStreams THEN Trim(error.stdout) ELSE <<>>,
     stderr |-> OrElse(IF error.hasStreams THEN Trim(error.stderr) ELSE <<>>,
                       OrElse(error.message, <<"Unknown error">>)),
     exitCode |-> IF error.code \notin {NoCode, 0} THEN error.code ELSE EXIT_ERROR,
     success |-> FALSE]

\* executeCommand: what the 'close' handler resolves with.
CloseResultIgnoresCode(code, stdout, stderr) ==
    [kind |-> "CliResult", success |-> TRUE, data |-> stdout, error |-> <<>>,
     stdout |-> stdout, stderr |-> stderr, hasStreams |-> TRUE]
CloseResult(code, stdout, stderr) ==
    IF code = 0
    THEN [kind |-> "CliResult", success |-> TRUE, data |-> stdout, error |-> <<>>,
          stdout |-> stdout, stderr |-> stderr, hasStreams |-> TRUE]
    ELSE [kind |-> "CliResult", success |-> FALSE, data |-> <<>>,
          error |-> OrElse(stderr, <<"Command failed with exit code ", CodeText(code)>>),
          stdout |-> stdout, stderr |-> stderr, hasStreams |-> TRUE]

\* executeCommand: what the 'error' handler resolves with.
ErrorResult(error, stdout, stderr) ==
    [kind |-> "CliResult", success |-> FALSE, data |-> <<>>, error |-> error.message,
     stdout |-> stdout, stderr |-> stderr, hasStreams |-> TRUE]

\* executeCommand: what the timeout callback resolves with.
TimeoutResult(timeout, stdout, stderr) ==
    [kind |-> "CliResult", success |-> FALSE, data |-> <<>>,
     error |-> <<"Command timed out after ", SecondsText(timeout), " seconds">>,
     stdout |-> stdout, stderr |-> stderr, hasStreams |-> TRUE]

\* executeCommand: what the catch block around spawn resolves with.
CatchRejects(error) == [kind |-> "rejected", message |-> error.message]
CatchResult(error) ==
    [kind |-> "CliResult", success |-> FALSE, data |-> <<>>, error |-> error.message,
     stdout |-> <<>>, stderr |-> <<>>, hasStreams |-> FALSE]

\* The cli that takes its workspace as a Uri returns stdout, stderr and
\* exitCode, built as above, without the success field.
ExecApis == {"run", "runChecked"}
CommandResultOf(api, r) ==
    IF api = "runChecked"
    THEN [kind |-> "ExitCodeResult", stdout |-> r.stdout, stderr |-> r.stderr,
          exitCode |-> r.exitCode]
    ELSE r

\* An async function that throws: its promise rejects with the error.
Rejected(message) == [kind |-> "rejected", message |-> message]

\* Directories a caller or the configuration names: none, one that exists
\* and one that does not; process.cwd() exists.
NoDirectory == ""
WORKSPACE == "/workspace"
Directories == {NoDirectory, WORKSPACE, "/gone"}
ProcessCwd == "/home"
\* fs.existsSync
DirectoryExists(directory) == directory \in {WORKSPACE, ProcessCwd}
\* `a || b` on paths.
FirstSet(a, b) == IF a # NoDirectory THEN a ELSE b

\* resolve(value): a promise settles once; later calls change nothing.
ResolveOverwrites(value) == value
Resolve(value) == IF result = Pending THEN value ELSE result

\* ------------------------------------------------- Tabular Output Parser

\* A line of the list output is a sequence of whitespace characters and of
\* words; a word is a piece of text without whitespace that is never cut, and
\* words that follow each other without whitespace make one longer token
\* (<<"ID", "env">> is the text IDenv).  The parser looks for ID, TITLE,
\* CREATED and UPDATED only, and no other word used here contains one of them.
Words == {"ID", "env"}
Space == " "
Gap == <<Space, Space>>

\* Lines of a list output: blank ones, headers, rows of two, three and four
\* columns, a row of one column, a row with spaces around it, a row whose id
\* is the word ID, and a row whose id starts with ID and whose title has TITLE.
SampleLines ==
    { <<>>,
      <<Space, Space>>,
      <<"ID">> \o Gap \o <<"TITLE">> \o Gap \o <<"CREATED">> \o Gap \o <<"UPDATED">>,
      <<"ID", Space, "UPDATED">>,
      <<"env-1">> \o Gap \o <<"My", Space, "Env">> \o Gap \o <<"2024-01-01">>
          \o Gap \o <<"2024-01-02">>,
      <<"env-2">> \o Gap \o <<"Title", Space, "B">>,
      <<Space, "env-3">> \o Gap \o <<"C">> \o Gap \o <<"2024-01-03", Space>>,
      <<"env-4">>,
      <<"ID">> \o Gap \o <<"env">>,
      <<"ID", "env">> \o Gap \o <<"TITLE">> }

\* String.prototype.startsWith and includes, for a text that is a word.
StartsWith(str, word) == str # <<>> /\ str[1] = word
Includes(str, word) == \E k \in 1..Len(str) : str[k] = word

\* The first index of a run of two or more whitespace characters, 0 if none.
FirstGap(str) ==
    LET gaps == {k \in 1..(Len(str) - 1) : IsWhitespace(str[k]) /\ IsWhitespace(str[k + 1])}
    IN  IF gaps = {} THEN 0 ELSE CHOOSE k \in gaps : \A j \in gaps : k <= j

\* str.split(/\s{2,}/): a separator is a whole run of whitespace of length two
\* or more; a separator at either end leaves an empty part there.
RECURSIVE SplitColumns(_)
SplitColumns(str) ==
    LET at == FirstGap(str)
    IN  IF at = 0 THEN <<str>>
        ELSE <<SubSeq(str, 1, at - 1)>>
                 \o SplitColumns(TrimStart(SubSeq(str, at, Len(str))))

\* A value that is undefined (a column the line does not have), and null.
Undefined == <<"undefined">>
Null == [null |-> TRUE]
Part(parts, k) == IF k <= Len(parts) THEN parts[k] ELSE Undefined

\* parseEnvironmentLine(line)
ParseEnvironmentLineKeepsSingle(str) ==
    LET trimmed == Trim(str)
        parts == [k \in 1..Len(SplitColumns(trimmed)) |-> Trim(SplitColumns(trimmed)[k])]
        id == Part(parts, 1)
        title == IF Len(parts) >= 2 THEN parts[2] ELSE <<>>
    IN  IF trimmed = <<>> THEN Null
        ELSE [id |-> OrElse(id, <<>>),
              name |-> OrElse(title, id),
              title |-> OrElse(title, id),
              created |-> Part(parts, 3),
              updated |-> Part(parts, 4)]
ParseEnvironmentLineSwapsColumns(str) ==
    LET trimmed == Trim(str)
        parts == [k \in 1..Len(SplitColumns(trimmed)) |-> Trim(SplitColumns(trimmed)[k])]
        title == Part(parts, 1)
        id == Part(parts, 2)
    IN  IF trimmed = <<>> THEN Null
        ELSE IF Len(parts) < MIN_COLUMNS THEN Null
        ELSE [id |-> OrElse(id, <<>>),
              name |-> OrElse(title, id),
              title |-> OrElse(title, id),
              created |-> Part(parts, 3),
              updated |-> Part(parts, 4)]
ParseEnvironmentLine(str) ==
    LET trimmed == Trim(str)
        parts == [k \in 1..Len(SplitColumns(trimmed)) |-> Trim(SplitColumns(trimmed)[k])]
        id == Part(parts, 1)
        title == Part(parts, 2)
    IN  IF trimmed = <<>> THEN Null
        ELSE IF Len(parts) < MIN_COLUMNS THEN Null
        ELSE [id |-> OrElse(id, <<>>),
              name |-> OrElse(title, id),
              title |-> OrElse(title, id),
              created |-> Part(parts, 3),
              updated |-> Part(parts, 4)]

\* The header test of parseEnvironmentLines' first filter.
IsHeaderLineNever(trimmed) == FALSE
IsHeaderLine(trimmed) ==
    /\ StartsWith(trimmed, "ID")
    /\ \/ Includes(trimmed, "TITLE")
       \/ Includes(trimmed, "CREATED")
       \/ Includes(trimmed, "UPDATED")

KeepsLine(str) ==
    LET trimmed == Trim(str)
    IN  IF trimmed = <<>> THEN FALSE
        ELSE IF IsHeaderLine(trimmed) THEN FALSE
        ELSE TRUE

\* parseEnvironmentLines(lines): filter, map, filter.
ParseEnvironmentLinesKeepsNull(ls) ==
    LET kept == SelectSeq(ls, KeepsLine)
    IN  [k \in 1..Len(kept) |-> ParseEnvironmentLine(kept[k])]
ParseEnvironmentLines(ls) ==
    LET kept == SelectSeq(ls, KeepsLine)
        mapped == [k \in 1..Len(kept) |-> ParseEnvironmentLine(kept[k])]
    IN  SelectSeq(mapped, LAMBDA env : env # Null)

\* str.split('\n'): the pieces between the newlines, empty ones included.
RECURSIVE SplitLines(_)
SplitLines(str) ==
    LET breaks == {k \in 1..Len(str) : str[k] = "\n"}
        at == CHOOSE k \in breaks : \A j \in breaks : k <= j
    IN  IF breaks = {} THEN <<str>>
        ELSE <<SubSeq(str, 1, at - 1)>> \o SplitLines(SubSeq(str, at + 1, Len(str)))

\* list() of the spawn-based cli, from the stdout of executeCommand(['list'])
\* on: the first part of each non-empty line split on whitespace.
FirstPart(trimmed) ==
    LET ws == {k \in 1..Len(trimmed) : IsWhitespace(trimmed[k])}
        at == CHOOSE k \in ws : \A j \in ws : k <= j
    IN  IF ws = {} THEN trimmed ELSE SubSeq(trimmed, 1, at - 1)
ListNames(stdout) ==
    LET ls == SplitLines(stdout)
        named == SelectSeq(ls, LAMBDA l : Trim(l) # <<>> /\ FirstPart(Trim(l)) # <<>>)
    IN  [k \in 1..Len(named) |-> FirstPart(Trim(named[k]))]

\* environments(), from the result of run(['list']) on.
EnvironmentsOf(r) ==
    IF ~r.success \/ r.exitCode # EXIT_SUCCESS THEN <<>>
    ELSE IF r.stdout = <<>> THEN <<>>
    ELSE ParseEnvironmentLines(SplitLines(r.stdout))

\* The length of the run of whitespace a text ends with, and its words.
TrailingRun(str) == Len(str) - Len(TrimEnd(str))
WordCount(str) == Cardinality({k \in 1..Len(str) : ~IsWhitespace(str[k])})

\* ------------------------------------------------------ availability

\* What the help output is made of here: the marker, the marker in capitals
\* and some other word.
VALIDATION_TEXT == "stdio"
\* exists called without requiredText.
NoRequiredText == <<>>
HelpChars == {"stdio", "STDIO", "k"}
\* String.prototype.toLowerCase
ToLowerCase(str) ==
    [k \in 1..Len(str) |-> IF str[k] = "STDIO" THEN "stdio" ELSE str[k]]
\* output.toLowerCase().includes(text)
IncludesExactCase(output, text) == Includes(output, text)
IncludesLowerCased(output, text) == Includes(ToLowerCase(output), text)

\* A promise of a boolean.
Boolean(b) == [kind |-> "boolean", value |-> b]

\* isInstalled() of the cli with CLI_CONFIG, from the result of run(['--help']) on.
IsInstalledConfig(r) ==
    r.stdout # <<>> /\ Includes(r.stdout, VALIDATION_TEXT)

\* isInstalled() of the cli in cli.ts, from the result of run(['--help']) on.
IsInstalledCli(r) ==
    IF r.stderr # <<>> /\ Includes(r.stderr, "stdio")
    THEN TRUE
    ELSE r.exitCode = 0

\* ensureBinaryExists: what the 'close' handler resolves with.
BinaryCloseResult(code, stdout, stderr) ==
    LET output == stdout \o stderr
        hasStdio == IncludesLowerCased(output, "stdio")
        exitCodeOk == code = 0
    IN  Boolean(exitCodeOk /\ hasStdio)

\* exists(command, args, requiredText): what the 'close' handler resolves with.
ExistsCloseResult(requiredText, code, stdout, stderr) ==
    LET output == stdout \o stderr
    IN  Boolean(/\ code = 0
                /\ requiredText # NoRequiredText =>
                       IncludesLowerCased(output, ToLowerCase(requiredText)[1]))

\* The handlers of a spawned child, by the function that installed them.
SpawnApis == {"executeCommand", "ensureBinaryExists", "exists"}
OnClose(code, stdout, stderr) ==
    CASE inv.api = "ensureBinaryExists" -> BinaryCloseResult(code, stdout, stderr)
      [] inv.api = "exists" -> ExistsCloseResult(probe.requiredText, code, stdout, stderr)
      [] OTHER -> CloseResult(code, stdout, stderr)
OnError(error, stdout, stderr) ==
    IF inv.api = "executeCommand" THEN ErrorResult(error, stdout, stderr) ELSE Boolean(FALSE)
OnTimeout(timeout, stdout, stderr) ==
    IF inv.api = "executeCommand" THEN TimeoutResult(timeout, stdout, stderr) ELSE Boolean(FALSE)

NewTerminal(name) ==
    [name |-> name, shellIntegration |-> NoShellIntegration,
     running |-> FALSE, created |-> TRUE]

InitTerm ==
    [t \in TermIds |->
        IF t = UserTerminal
        THEN [name |-> "bash", shellIntegration |-> ShellIntegration("uri"),
              running |-> FALSE, created |-> TRUE]
        ELSE [name |-> "", shellIntegration |-> NoShellIntegration,
              running |-> FALSE, created |-> FALSE]]

InitCall == [i \in Calls |->
    [pc |-> "idle", kind |-> "none", environmentId |-> "",
     terminal |-> NoTerminal, isNewlyCreated |-> FALSE, step |-> 0,
     sessionExisted |-> FALSE]]

\* Nothing has been parsed.
NotParsed == [op |-> "none"]
InitParser ==
    /\ line = <<>>
    /\ lines = <<>>
    /\ parsed = NotParsed

\* No availability check has been made.
InitProbe == probe = [requiredText |-> NoRequiredText, returned |-> FALSE, installed |-> FALSE]

InitInvoker ==
    /\ inv = [api |-> "none", timer |-> "none", timeout |-> 0, directory |-> ""]
    /\ child = [state |-> "none", stdout |-> <<>>, stderr |-> <<>>, code |-> NoCode]
    /\ result = Pending

\* What a command shows: showInformationMessage, showWarningMessage, showErrorMessage.
Message(kind, text) == [kind |-> kind, text |-> text]
\* What showEnvironmentQuickPick has returned: nothing yet, or undefined.
NotReturned == [returned |-> FALSE]
UndefinedEnvironment == [undefined |-> TRUE]
\* What the tool wrote and how it ended, before the invoker made a result of it.
NoTool == [code |-> NoCode, stdout |-> <<>>, stderr |-> <<>>]

\* No environment command has been invoked.
IdleCommand ==
    [pc |-> "idle", handler |-> "none", name |-> "none", listed |-> <<>>,
     environments |-> <<>>, returned |-> NotReturned, environmentId |-> <<>>,
     tool |-> NoTool, result |-> Pending, shown |-> <<>>, ran |-> <<>>,
     merge |-> "none", action |-> "none", picked |-> 0,
     load |-> "none", quickPickShown |-> FALSE]
InitCommand == cmd = IdleCommand

\* No installation check is in progress and no command that checks runs; the
\* preference containerUse.suppressInstallNotice is not set; no notice is open.
IdleCheck ==
    [pc |-> "idle", by |-> "none", startSuppress |-> FALSE, events |-> {},
     found |-> FALSE, showed |-> FALSE]
IdleChecked ==
    [pc |-> "idle", name |-> "none", detected |-> FALSE, shown |-> <<>>, went |-> FALSE]
InitInstall ==
    install = [suppress |-> FALSE, notices |-> 0, check |-> IdleCheck, command |-> IdleChecked]

\* .vscode/mcp.json: missing, not a configuration (unparseable, or without
\* `servers`), or a configuration with or without other servers and with no
\* container-use server, one the user wrote, or the one the command writes.
McpAbsent == [state |-> "absent"]
McpInvalid == [state |-> "invalid"]
McpConfiguration(other, entry) == [state |-> "valid", other |-> other, entry |-> entry]
McpFiles ==
    {McpAbsent, McpInvalid}
        \cup {McpConfiguration(other, entry) :
                 other \in BOOLEAN, entry \in {"none", "custom", "default"}}

\* No workspace file command has been invoked; neither file is on disk.
IdleFiles(instructions, mcp) ==
    [pc |-> "idle", command |-> "none", instructions |-> instructions, mcp |-> mcp,
     workspace |-> FALSE, exists |-> FALSE, overwrite |-> "none", action |-> "none",
     shown |-> <<>>, wrote |-> FALSE]
InitFiles == files = IdleFiles("absent", McpAbsent)

Init ==
    /\ terminals = <<UserTerminal>>
    /\ term = InitTerm
    /\ nextId = 1
    /\ call = InitCall
    /\ log = <<>>
    /\ InitInvoker
    /\ InitParser
    /\ InitProbe
    /\ InitCommand
    /\ InitInstall
    /\ InitFiles

\* Calls are numbered in the order the commands are issued.
IsNextCall(i) == call[i].pc = "idle" /\ \A j \in 1..(i - 1) : call[j].pc # "idle"

\* The shell runs what a text with a newline asks for, if the terminal is open.
AfterSend(tm, t, live) == IF live THEN [tm EXCEPT ![t].running = TRUE] ELSE tm

\* The open terminals that carry the shared name.
SharedSessions == {k \in 1..Len(terminals) : term[terminals[k]].name = TERMINAL_NAME}

\* What a probe is recorded with: isTerminalBusy's answer, and what the
\* terminal was in fact doing and exposing when it was asked.
ProbeVerdict(tm) ==
    << IF IsTerminalBusy(tm) THEN "busy" ELSE "not busy",
       IF tm.shellIntegration.present THEN "integration" ELSE "no integration",
       IF tm.running THEN "executing" ELSE "at prompt" >>

\* findOrCreateContainerUseTerminal
FindOrCreateContainerUseTerminal ==
    LET existingTerminal == FindTerminalByName(TERMINAL_NAME)
    IN  IF existingTerminal # NoTerminal
        THEN [terminal |-> existingTerminal, isNewlyCreated |-> FALSE]
        ELSE [terminal |-> nextId, isNewlyCreated |-> TRUE]

\* The tail of openTerminalForEnvironment: send the command, show the terminal.
SendAndShow(i, t, environmentId, live) ==
    << SendText(i, t, TerminalCommandText(environmentId), TRUE, live),
       ShowTerminal(i, t, live) >>

\* openTerminalForEnvironment up to its first await (the prompt), or to its end.
OpenTerminalForEnvironment(i, environmentId) ==
    /\ IsNextCall(i)
    /\ LET r == FindOrCreateContainerUseTerminal
           t == r.terminal
           terminals1 == IF r.isNewlyCreated THEN Append(terminals, t) ELSE terminals
           term1 == IF r.isNewlyCreated
                    THEN [term EXCEPT ![t] = NewTerminal(TERMINAL_NAME)]
                    ELSE term
           found == Entry(i, IF r.isNewlyCreated THEN "create" ELSE "find",
                          t, NoText, FALSE, TRUE)
           probed == IF Probes(r.isNewlyCreated)
                     THEN <<found, Entry(i, "probe", t, ProbeVerdict(term1[t]), FALSE, TRUE)>>
                     ELSE <<found>>
           mine == [kind |-> "terminal", environmentId |-> environmentId,
                    terminal |-> t, isNewlyCreated |-> r.isNewlyCreated, step |-> 0,
                    sessionExisted |-> SharedSessions # {}]
       IN  /\ terminals' = terminals1
           /\ nextId' = IF r.isNewlyCreated THEN nextId + 1 ELSE nextId
           /\ IF MustHandleBusy(r.isNewlyCreated, term1[t])
              THEN /\ term' = term1
                   /\ log' = log \o probed \o <<Entry(i, "prompt", t, NoText, FALSE, TRUE)>>
                   /\ call' = [call EXCEPT ![i] = [pc |-> "prompt"] @@ mine]
              ELSE /\ term' = AfterSend(term1, t, TRUE)
                   /\ log' = log \o probed \o SendAndShow(i, t, environmentId, TRUE)
                   /\ call' = [call EXCEPT ![i] = [pc |-> "done"] @@ mine]
    /\ UNCHANGED <<invokerVars, parserVars, probeVars, uiVars>>

\* handleBusyTerminal resumes with the user's answer to the modal prompt.
HandleBusyTerminal(i, action) ==
    /\ call[i].pc = "prompt"
    /\ LET t == call[i].terminal
           live == IsOpen(t)
           answer == Entry(i, "answer", t, <<action>>, FALSE, live)
           first == InterruptionSequence[1]
       IN  IF ShouldProceed(action)
           THEN /\ log' = log \o <<answer, SendText(i, t, first.text, first.addNewLine, live)>>
                /\ call' = [call EXCEPT ![i].pc = "settle", ![i].step = 1]
                /\ term' = term
           ELSE \* handleBusyTerminal returns false
                IF SendsCommand(FALSE)
                THEN /\ log' = log \o <<answer>> \o SendAndShow(i, t, call[i].environmentId, live)
                     /\ call' = [call EXCEPT ![i].pc = "done"]
                     /\ term' = AfterSend(term, t, live)
                ELSE /\ log' = log \o <<answer>>
                     /\ call' = [call EXCEPT ![i].pc = "done"]
                     /\ term' = term
    /\ UNCHANGED <<terminals, nextId>>
    /\ UNCHANGED <<invokerVars, parserVars, probeVars, uiVars>>

\* A settle delay of handleBusyTerminal elapses: the next text is sent, or,
\* after the last one, handleBusyTerminal returns true and the command goes out.
SettleDelayElapsed(i) ==
    /\ call[i].pc = "settle"
    /\ LET t == call[i].terminal
           live == IsOpen(t)
           n == call[i].step
           timer == Entry(i, "timer", t, <<InterruptionSequence[n].delay>>, FALSE, live)
       IN  IF n < Len(InterruptionSequence)
           THEN LET nxt == InterruptionSequence[n + 1]
                IN  /\ log' = log \o <<timer, SendText(i, t, nxt.text, nxt.addNewLine, live)>>
                    /\ call' = [call EXCEPT ![i].step = n + 1]
                    /\ term' = term
           ELSE IF SendsCommand(TRUE)
                THEN /\ log' = log \o <<timer>> \o SendAndShow(i, t, call[i].environmentId, live)
                     /\ call' = [call EXCEPT ![i].pc = "done"]
                     /\ term' = AfterSend(term, t, live)
                ELSE /\ log' = log \o <<timer>>
                     /\ call' = [call EXCEPT ![i].pc = "done"]
                     /\ term' = term
    /\ UNCHANGED <<terminals, nextId>>
    /\ UNCHANGED <<invokerVars, parserVars, probeVars, uiVars>>

\* The container-use.watch handler: after ensureInstalled, a terminal with the
\* shared name is created, shown and sent `cu watch`.
WatchCommand(i, installed) ==
    /\ IsNextCall(i)
    /\ LET t == nextId
           mine == [kind |-> "watch", environmentId |-> "", step |-> 0,
                    sessionExisted |-> SharedSessions # {}]
       IN  IF ~installed
           THEN /\ call' = [call EXCEPT ![i] =
                      [pc |-> "done", terminal |-> NoTerminal, isNewlyCreated |-> FALSE] @@ mine]
                /\ UNCHANGED <<terminals, term, nextId, log>>
           ELSE /\ terminals' = Append(terminals, t)
                /\ term' = AfterSend([term EXCEPT ![t] = NewTerminal(TERMINAL_NAME)], t, TRUE)
                /\ nextId' = nextId + 1
                /\ log' = log \o << Entry(i, "create", t, NoText, FALSE, TRUE),
                                    ShowTerminal(i, t, TRUE),
                                    SendText(i, t, WATCH_COMMAND, TRUE, TRUE) >>
                /\ call' = [call EXCEPT ![i] =
                      [pc |-> "done", terminal |-> t, isNewlyCreated |-> TRUE] @@ mine]
    /\ UNCHANGED <<invokerVars, parserVars, probeVars, uiVars>>

\* ------------------------------------------------ the host and the user

\* The user closes a terminal, or its shell exits: it leaves window.terminals.
TerminalCloses(t) ==
    /\ IsOpen(t)
    /\ terminals' = SelectSeq(terminals, LAMBDA x : x # t)
    /\ term' = [term EXCEPT ![t].running = FALSE,
                             ![t].shellIntegration = NoShellIntegration]
    /\ UNCHANGED <<nextId, call, log>>
    /\ UNCHANGED <<invokerVars, parserVars, probeVars, uiVars>>

\* Shell integration activates in an open terminal; no cwd reported yet.
ShellIntegrationActivates(t) ==
    /\ IsOpen(t)
    /\ ~term[t].shellIntegration.present
    /\ term' = [term EXCEPT ![t].shellIntegration = ShellIntegration("undefined")]
    /\ UNCHANGED <<terminals, nextId, call, log>>
    /\ UNCHANGED <<invokerVars, parserVars, probeVars, uiVars>>

\* The shell reports its working directory.
CwdReported(t) ==
    /\ IsOpen(t)
    /\ term[t].shellIntegration.present
    /\ term[t].shellIntegration.cwd = "undefined"
    /\ term' = [term EXCEPT ![t].shellIntegration = ShellIntegration("uri")]
    /\ UNCHANGED <<terminals, nextId, call, log>>
    /\ UNCHANGED <<invokerVars, parserVars, probeVars, uiVars>>

\* The program running in the terminal ends: the shell is back at its prompt.
ExecutionEnds(t) ==
    /\ IsOpen(t)
    /\ term[t].running
    /\ term' = [term EXCEPT ![t].running = FALSE]
    /\ UNCHANGED <<terminals, nextId, call, log>>
    /\ UNCHANGED <<invokerVars, parserVars, probeVars, uiVars>>

\* ---------------------------------------------- Process Invoker: actions

LaunchOutcomes == {"spawned", "spawnError", "throws"}

Launched(launch) ==
    [state |-> CASE launch = "spawned" -> "running"
                 [] launch = "spawnError" -> "spawnError"
                 [] OTHER -> "none",
     stdout |-> <<>>, stderr |-> <<>>, code |-> NoCode]

\* run(args, options) up to `await execAsync(command, {cwd, timeout, env})`:
\* the working directory is options.cwd, else the configured workspace path,
\* else process.cwd(); exec cannot spawn in a directory that does not exist.
Run(cwd, workspacePath, launch) ==
    LET workingDirectory == FirstSet(cwd, FirstSet(workspacePath, ProcessCwd))
    IN  /\ inv.api = "none"
        /\ ~DirectoryExists(workingDirectory) => launch = "spawnError"
        /\ child' = Launched(launch)
        /\ inv' = [api |-> "run",
                   timer |-> IF launch = "spawned" THEN "armed" ELSE "none",
                   timeout |-> DEFAULT_TIMEOUT,
                   directory |-> FirstSet(cwd, workspacePath)]
        /\ result' = IF launch = "throws" THEN RunFailure(ThrownError) ELSE Pending
        /\ UNCHANGED <<termVars, parserVars, probeVars, uiVars>>

\* run(args, options) of the cli that takes its workspace as a Uri: it throws
\* before exec when no working directory is named or the one named does not
\* exist, and otherwise goes on as above.
RunChecked(cwd, workspace, launch) ==
    LET workingDirectory == FirstSet(cwd, workspace)
    IN  /\ inv.api = "none"
        /\ IF workingDirectory = NoDirectory \/ ~DirectoryExists(workingDirectory)
           THEN /\ launch = "throws"
                /\ child' = child
                /\ inv' = [api |-> "runChecked", timer |-> "none",
                           timeout |-> DEFAULT_TIMEOUT, directory |-> workingDirectory]
                /\ result' = Rejected(<<"Working directory does not exist: ",
                                        workingDirectory>>)
           ELSE /\ child' = Launched(launch)
                /\ inv' = [api |-> "runChecked",
                           timer |-> IF launch = "spawned" THEN "armed" ELSE "none",
                           timeout |-> DEFAULT_TIMEOUT, directory |-> workingDirectory]
                /\ result' = IF launch = "throws"
                             THEN CommandResultOf("runChecked", RunFailure(ThrownError))
                             ELSE Pending
        /\ UNCHANGED <<termVars, parserVars, probeVars, uiVars>>

\* executeCommand(args) up to the end of the promise executor: spawn, the
\* handlers, setTimeout; a spawn that throws lands in the catch block.
ExecuteCommand(launch, timeout) ==
    /\ inv.api = "none"
    /\ child' = Launched(launch)
    /\ inv' = [api |-> "executeCommand",
               timer |-> IF launch = "throws" THEN "none" ELSE "armed",
               timeout |-> timeout, directory |-> WORKSPACE]
    /\ result' = IF launch = "throws" THEN CatchResult(ThrownError) ELSE Pending
    /\ UNCHANGED <<termVars, parserVars, probeVars, uiVars>>

\* The child writes a character to stdout or stderr ('data' events).
ChildWrites(stream, c) ==
    /\ child.state = "running"
    /\ Len(child[stream]) < MaxStreamLen
    /\ child' = [child EXCEPT ![stream] = Append(@, c)]
    /\ UNCHANGED <<inv, result>>
    /\ UNCHANGED <<termVars, parserVars, probeVars, uiVars>>

\* The child ends by itself with an exit code: exec's callback runs (and
\* clears its timer), or spawn's 'close' handler does.
ChildCloses(code) ==
    /\ child.state = "running"
    /\ child' = [child EXCEPT !.state = "exited", !.code = code]
    /\ IF inv.api \in ExecApis
       THEN /\ inv' = [inv EXCEPT !.timer = "cleared"]
            /\ result' = CommandResultOf(inv.api,
                             IF code = 0
                             THEN RunSuccess(child.stdout, child.stderr)
                             ELSE RunFailure(ExecError(code, child.stdout, child.stderr)))
       ELSE /\ inv' = inv
            /\ result' = Resolve(OnClose(code, child.stdout, child.stderr))
    /\ UNCHANGED <<termVars, parserVars, probeVars, uiVars>>

\* The 'error' event of a child that could not be spawned.
ChildError ==
    /\ child.state = "spawnError"
    /\ child' = [child EXCEPT !.state = "errored"]
    /\ IF inv.api \in ExecApis
       THEN /\ inv' = [inv EXCEPT !.timer = "cleared"]
            /\ result' = CommandResultOf(inv.api, RunFailure(SpawnError))
       ELSE /\ inv' = inv
            /\ result' = Resolve(OnError(SpawnError, child.stdout, child.stderr))
    /\ UNCHANGED <<termVars, parserVars, probeVars, uiVars>>

\* The timeout elapses.  exec kills the child and waits for it to end;
\* executeCommand's callback kills the child and resolves at once.
TimeoutFires ==
    /\ inv.timer = "armed"
    \* a failed spawn's 'error' event is emitted on the next tick, before any timer
    /\ child.state # "spawnError"
    /\ inv' = [inv EXCEPT !.timer = "fired"]
    /\ child' = IF child.state = "running"
                THEN [child EXCEPT !.state = "killed"]
                ELSE child
    /\ result' = IF inv.api \in SpawnApis
                 THEN Resolve(OnTimeout(inv.timeout, child.stdout, child.stderr))
                 ELSE result
    /\ UNCHANGED <<termVars, parserVars, probeVars, uiVars>>

\* The killed child ends: code null, signal SIGTERM.
KilledChildCloses ==
    /\ child.state = "killed"
    /\ child' = [child EXCEPT !.state = "killedClosed"]
    /\ inv' = inv
    /\ result' = IF inv.api \in ExecApis
                 THEN CommandResultOf(inv.api,
                          RunFailure(ExecError(NoCode, child.stdout, child.stderr)))
                 ELSE Resolve(OnClose(NoCode, child.stdout, child.stderr))
    /\ UNCHANGED <<termVars, parserVars, probeVars, uiVars>>

\* environments(): what follows `await this.run(['list'])`.
Environments ==
    /\ inv.api = "run"
    /\ result # Pending
    /\ parsed = NotParsed
    /\ parsed' = [op |-> "environments", value |-> EnvironmentsOf(result)]
    /\ UNCHANGED <<line, lines>>
    /\ UNCHANGED <<termVars, invokerVars, probeVars, uiVars>>

NextInvoker ==
    \/ \E cwd, workspacePath \in Directories, launch \in LaunchOutcomes :
          Run(cwd, workspacePath, launch)
    \/ \E cwd, workspace \in Directories, launch \in LaunchOutcomes :
          RunChecked(cwd, workspace, launch)
    \/ \E launch \in LaunchOutcomes, timeout \in CliTimeouts : ExecuteCommand(launch, timeout)
    \/ \E stream \in {"stdout", "stderr"}, c \in Chars : ChildWrites(stream, c)
    \/ \E code \in ExitCodes : ChildCloses(code)
    \/ ChildError
    \/ TimeoutFires
    \/ KilledChildCloses
    \/ Environments

SpecInvoker == Init /\ [][NextInvoker]_vars

\* ------------------------------------- Tabular Output Parser: one line

\* The line under test gets one more word, or one more space.
AppendWord(w) ==
    /\ parsed = NotParsed
    /\ WordCount(line) < MaxWords
    /\ line' = Append(line, w)
    /\ UNCHANGED <<lines, parsed>>
    /\ UNCHANGED <<termVars, invokerVars, probeVars, uiVars>>

AppendSpace ==
    /\ parsed = NotParsed
    /\ TrailingRun(line) < MaxRun
    /\ line' = Append(line, Space)
    /\ UNCHANGED <<lines, parsed>>
    /\ UNCHANGED <<termVars, invokerVars, probeVars, uiVars>>

ParseLine ==
    /\ parsed = NotParsed
    /\ parsed' = [op |-> "parseEnvironmentLine", value |-> ParseEnvironmentLine(line)]
    /\ UNCHANGED <<line, lines>>
    /\ UNCHANGED <<termVars, invokerVars, probeVars, uiVars>>

\* ------------------------------------ Tabular Output Parser: the lines

\* The output under test gets one more line.
AddLine(l) ==
    /\ parsed = NotParsed
    /\ Len(lines) < MaxLines
    /\ lines' = Append(lines, l)
    /\ UNCHANGED <<line, parsed>>
    /\ UNCHANGED <<termVars, invokerVars, probeVars, uiVars>>

ParseLines ==
    /\ parsed = NotParsed
    /\ parsed' = [op |-> "parseEnvironmentLines", value |-> ParseEnvironmentLines(lines)]
    /\ UNCHANGED <<line, lines>>
    /\ UNCHANGED <<termVars, invokerVars, probeVars, uiVars>>

\* `cu list` printed the lines and exited 0: run(['list']) returns them as
\* its trimmed stdout, and environments() goes on from there.
JoinLines(ls) ==
    IF ls = <<>> THEN <<>>
    ELSE LET Joined[k \in 1..Len(ls)] ==
                 IF k = 1 THEN ls[1] ELSE Joined[k - 1] \o <<"\n">> \o ls[k]
         IN  Joined[Len(ls)]

EnvironmentsOfOutput ==
    /\ parsed = NotParsed
    /\ parsed' = [op |-> "environments",
                  value |-> EnvironmentsOf(RunSuccess(JoinLines(lines), <<>>))]
    /\ UNCHANGED <<line, lines>>
    /\ UNCHANGED <<termVars, invokerVars, probeVars, uiVars>>

NextParser ==
    \/ \E l \in SampleLines : AddLine(l)
    \/ ParseLines
    \/ EnvironmentsOfOutput

SpecParser == Init /\ [][NextParser]_vars

\* list() on an output that is this one line.
ListLine ==
    /\ parsed = NotParsed
    /\ parsed' = [op |-> "list", value |-> ListNames(line)]
    /\ UNCHANGED <<line, lines>>
    /\ UNCHANGED <<termVars, invokerVars, probeVars, uiVars>>

NextParseLine ==
    \/ \E w \in Words : AppendWord(w)
    \/ AppendSpace
    \/ ParseLine
    \/ ListLine

SpecParseLine == Init /\ [][NextParseLine]_vars

\* ------------------------------------------------- availability: actions

\* The timeout ensureBinaryExists gives its child.
BINARY_TIMEOUT == 5000

\* ensureBinaryExists(binaryName) up to the end of the promise executor.
EnsureBinaryExists(launch) ==
    /\ inv.api = "none"
    /\ child' = Launched(launch)
    /\ inv' = [api |-> "ensureBinaryExists",
               timer |-> IF launch = "throws" THEN "none" ELSE "armed",
               timeout |-> BINARY_TIMEOUT, directory |-> NoDirectory]
    /\ result' = IF launch = "throws" THEN Boolean(FALSE) ELSE Pending
    /\ probe' = [probe EXCEPT !.requiredText = <<"stdio">>]
    /\ UNCHANGED <<termVars, parserVars, uiVars>>

\* exists(command, args, requiredText) up to the end of the promise executor.
Exists(requiredText, launch) ==
    /\ inv.api = "none"
    /\ child' = Launched(launch)
    /\ inv' = [api |-> "exists",
               timer |-> IF launch = "throws" THEN "none" ELSE "armed",
               timeout |-> BINARY_TIMEOUT, directory |-> NoDirectory]
    /\ result' = IF launch = "throws" THEN Boolean(FALSE) ELSE Pending
    /\ probe' = [probe EXCEPT !.requiredText = requiredText]
    /\ UNCHANGED <<termVars, parserVars, uiVars>>

\* isInstalled(): what follows `await this.run(['--help'])`, in the cli with
\* CLI_CONFIG and in the cli of cli.ts.
IsInstalled(cli) ==
    /\ inv.api = "run"
    /\ result # Pending
    /\ ~probe.returned
    /\ probe' = [requiredText |-> <<VALIDATION_TEXT>>, returned |-> TRUE,
                 installed |-> IF cli = "config" THEN IsInstalledConfig(result)
                               ELSE IsInstalledCli(result)]
    /\ UNCHANGED <<termVars, invokerVars, parserVars, uiVars>>

RequiredTexts == {NoRequiredText, <<"stdio">>, <<"STDIO">>}

NextAvailable ==
    \/ \E workspacePath \in Directories, launch \in LaunchOutcomes :
          Run(NoDirectory, workspacePath, launch)
    \/ \E launch \in LaunchOutcomes : EnsureBinaryExists(launch)
    \/ \E requiredText \in RequiredTexts, launch \in LaunchOutcomes :
          Exists(requiredText, launch)
    \/ \E stream \in {"stdout", "stderr"}, c \in HelpChars : ChildWrites(stream, c)
    \/ \E code \in ExitCodes : ChildCloses(code)
    \/ ChildError
    \/ TimeoutFires
    \/ KilledChildCloses
    \/ \E cli \in {"config", "cli.ts"} : IsInstalled(cli)

SpecAvailable == Init /\ [][NextAvailable]_vars

\* ------------------------------------------------ environment commands

MaxListed == 3
OneShotCommands == {"delete", "merge", "checkout"}
NoItem == <<>>
ItemIds == {<<"env-1">>}
DELETE_ENVIRONMENT_ACTION == "Delete Environment"
KEEP_ENVIRONMENT_ACTION == "Keep Environment"

\* What `cu list` may print: up to MaxListed lines, each blank, a header, a
\* row of four columns, a row of two columns or a row of one column.
ListLines ==
    { <<>>,
      <<"ID">> \o Gap \o <<"TITLE">> \o Gap \o <<"CREATED">> \o Gap \o <<"UPDATED">>,
      <<"env-1">> \o Gap \o <<"My", Space, "Env">> \o Gap \o <<"2024-01-01">>
          \o Gap \o <<"2024-01-02">>,
      <<"env-2">> \o Gap \o <<"Title", Space, "B">>,
      <<"env-4">> }
ListOutputs == UNION {[1..n -> ListLines] : n \in 0..MaxListed}
\* What the tool may write to a stream while it runs a one-shot command.
ToolStdouts == {<<>>, <<"out">>}
ToolStderrs == {<<>>, <<Space>>, <<"err">>}
RunCodes == ExitCodes \cup {NoCode, ENOENT}

\* What `await cli.run(args)` resolves with for a tool that wrote stdout and
\* stderr and ended with the code (NoCode: killed at the timeout; ENOENT: it
\* could not be started).
RunResult(code, stdout, stderr) ==
    IF code = 0 THEN RunSuccess(stdout, stderr)
    ELSE IF code = ENOENT THEN RunFailure(SpawnError)
    ELSE RunFailure(ExecError(code, stdout, stderr))

\* `result.stderr || result.stdout || 'Unknown error'`
ErrorDetails(r) == OrElse(r.stderr, OrElse(r.stdout, <<"Unknown error">>))

\* `selected?.environment` of the quick pick item the user chose.
SelectedFirst(environments, k) == environments[1]
Selected(environments, k) == environments[k]

\* The quick pick is shown for a list that is not empty.
ShowsQuickPickAlways(environments) == TRUE
ShowsQuickPick(environments) == Len(environments) # 0

\* deleteEnvironment, mergeEnvironment, checkoutEnvironment up to
\* `await cli.run([name, environmentId])`.
LaunchRun(c, name, environmentId) ==
    [c EXCEPT !.pc = "running", !.name = name, !.environmentId = environmentId,
              !.result = Pending,
              !.ran = Append(@, [via |-> "run", args |-> <<name, environmentId>>]),
              !.merge = IF name = "merge" THEN "running" ELSE @]

\* handleDeleteEnvironment, handleMergeEnvironment, handleCheckoutEnvironment:
\* called with a tree item the command runs for its environment, otherwise
\* the environments are loaded for a quick pick.
HandleEnvironment(name, item) ==
    /\ cmd.pc \in {"idle", "done"}
    /\ cmd' = IF item # NoItem
              THEN LaunchRun([IdleCommand EXCEPT !.handler = "handle"], name, item)
              ELSE [IdleCommand EXCEPT !.handler = "handle", !.name = name,
                                       !.pc = "loading"]
    /\ UNCHANGED <<install, files>>
    /\ UNCHANGED <<termVars, invokerVars, parserVars, probeVars>>

\* showEnvironmentQuickPick from `await cli.environments()` on: the tool
\* printed the lines and ended with the code, or the cli rejected.
EnvironmentsSettle(ls, code, rejects) ==
    /\ cmd.pc = "loading"
    /\ cmd.handler = "handle"
    /\ rejects => ls = <<>> /\ code = 0
    /\ LET environments == EnvironmentsOf(RunResult(code, JoinLines(ls), <<>>))
       IN  cmd' = IF rejects
                  THEN [cmd EXCEPT !.load = "rejected",
                                   !.shown = Append(@, Message("error",
                                       <<"Failed to load environments.", ": ", "Error">>)),
                                   !.returned = UndefinedEnvironment,
                                   !.pc = "done"]
                  ELSE IF ~ShowsQuickPick(environments)
                  THEN [cmd EXCEPT !.load = "resolved",
                                   !.listed = ls,
                                   !.environments = environments,
                                   !.shown = Append(@, Message("info",
                                       <<"No environments available.">>)),
                                   !.returned = UndefinedEnvironment,
                                   !.pc = "done"]
                  ELSE [cmd EXCEPT !.load = "resolved",
                                   !.listed = ls,
                                   !.environments = environments,
                                   !.quickPickShown = TRUE,
                                   !.pc = "picking"]
    /\ UNCHANGED <<install, files>>
    /\ UNCHANGED <<termVars, invokerVars, parserVars, probeVars>>

\* showQuickPick settles: the user chose the k-th item, or none (k = 0); the
\* caller goes on with the id of the environment returned.
QuickPickSettles(k) ==
    /\ cmd.pc = "picking"
    /\ cmd.handler = "handle"
    /\ k \in 0..Len(cmd.environments)
    /\ cmd' = IF k = 0
              THEN [cmd EXCEPT !.returned = UndefinedEnvironment, !.pc = "done"]
              ELSE LET environment == Selected(cmd.environments, k)
                   IN  LaunchRun([cmd EXCEPT !.returned = environment, !.picked = k],
                                 cmd.name, environment.id)
    /\ UNCHANGED <<install, files>>
    /\ UNCHANGED <<termVars, invokerVars, parserVars, probeVars>>

\* deleteEnvironment, mergeEnvironment, checkoutEnvironment from the result
\* of cli.run on: the success message (and, after a merge, the prompt to
\* delete the environment), or the failure message with the details.
RunSettles(code, stdout, stderr) ==
    /\ cmd.pc = "running"
    /\ cmd.handler = "handle"
    /\ code = ENOENT => stdout = <<>> /\ stderr = <<>>
    /\ LET r == RunResult(code, stdout, stderr)
           c == [cmd EXCEPT !.result = r,
                            !.tool = [code |-> code, stdout |-> stdout, stderr |-> stderr]]
       IN  cmd' =
             IF r.success
             THEN IF cmd.name = "merge"
                  THEN [c EXCEPT !.shown = @ \o
                                   << Message("info", <<"Successfully merged environment",
                                                        ": ">> \o cmd.environmentId),
                                      Message("info", <<"Environment merged successfully. Do you want to delete the environment?">>) >>,
                                 !.merge = "succeeded",
                                 !.pc = "prompting"]
                  ELSE [c EXCEPT !.shown = Append(@, Message("info",
                                     <<"Successfully ", cmd.name, ": ">> \o cmd.environmentId)),
                                 !.pc = "done"]
             ELSE [c EXCEPT !.shown = Append(@, Message("error",
                                <<"Failed to ", cmd.name, ": ">> \o cmd.environmentId
                                    \o <<": ">> \o ErrorDetails(r))),
                            !.merge = IF cmd.name = "merge" THEN "failed" ELSE @,
                            !.pc = "done"]
    /\ UNCHANGED <<install, files>>
    /\ UNCHANGED <<termVars, invokerVars, parserVars, probeVars>>

\* promptForEnvironmentDeletion from the answer on: 'Delete Environment'
\* executes container-use.deleteEnvironment with an item of the environment.
DeletionPromptSettles(action) ==
    /\ cmd.pc = "prompting"
    /\ cmd.handler = "handle"
    /\ cmd' = IF action = DELETE_ENVIRONMENT_ACTION
              THEN LaunchRun([cmd EXCEPT !.action = action], "delete", cmd.environmentId)
              ELSE [cmd EXCEPT !.action = action, !.pc = "done"]
    /\ UNCHANGED <<install, files>>
    /\ UNCHANGED <<termVars, invokerVars, parserVars, probeVars>>

\* environments() of the cli the older commands use: one name per line of
\* the output that is not blank, and a message when the tool failed or
\* printed nothing.
EnvironmentNames(r) ==
    IF ~r.success \/ r.exitCode # 0 THEN <<>>
    ELSE IF r.stdout = <<>> THEN <<>>
    ELSE SelectSeq(SplitLines(r.stdout), LAMBDA l : Trim(l) # <<>>)
EnvironmentNamesShown(r) ==
    IF ~r.success \/ r.exitCode # 0
    THEN <<Message("error", <<"Failed to get environments: ">> \o r.stderr)>>
    ELSE IF r.stdout = <<>>
    THEN <<Message("error", <<"No environments found or command failed.">>)>>
    ELSE <<>>

\* The older merge command, container-use.merge, up to
\* `await cli.environments()`.
MergeCommand ==
    /\ cmd.pc \in {"idle", "done"}
    /\ cmd' = [IdleCommand EXCEPT !.handler = "mergeCommand", !.name = "merge",
                                  !.pc = "loading"]
    /\ UNCHANGED <<install, files>>
    /\ UNCHANGED <<termVars, invokerVars, parserVars, probeVars>>

\* container-use.merge from the environments on, up to the quick pick.
MergeEnvironmentsSettle(ls, code) ==
    /\ cmd.pc = "loading"
    /\ cmd.handler = "mergeCommand"
    /\ LET r == RunResult(code, JoinLines(ls), <<>>)
           environments == EnvironmentNames(r)
           c == [cmd EXCEPT !.listed = ls, !.shown = EnvironmentNamesShown(r)]
       IN  cmd' = IF Len(environments) = 0
                  THEN [c EXCEPT !.shown = Append(@, Message("info",
                                     <<"No environments found to merge.">>)),
                                 !.pc = "done"]
                  ELSE [c EXCEPT !.environments = environments, !.pc = "picking"]
    /\ UNCHANGED <<install, files>>
    /\ UNCHANGED <<termVars, invokerVars, parserVars, probeVars>>

\* container-use.merge from the quick pick's answer on: a terminal is
\* created, `cu merge <name>` is sent to it, and the prompt to delete the
\* environment is shown.
MergeQuickPickSettles(k) ==
    /\ cmd.pc = "picking"
    /\ cmd.handler = "mergeCommand"
    /\ k \in 0..Len(cmd.environments)
    /\ cmd' = IF k = 0
              THEN [cmd EXCEPT !.pc = "done"]
              ELSE [cmd EXCEPT !.environmentId = cmd.environments[k],
                               !.picked = k,
                               !.ran = Append(@, [via |-> "terminal",
                                                  args |-> <<"merge", cmd.environments[k]>>]),
                               !.merge = "running",
                               !.shown = Append(@, Message("info",
                                   <<"Environment has been successfully merged. Would you like to delete the environment now?">>)),
                               !.pc = "prompting"]
    /\ UNCHANGED <<install, files>>
    /\ UNCHANGED <<termVars, invokerVars, parserVars, probeVars>>

\* The `cu merge` that was sent to the terminal ends there.
MergeInTerminalEnds(code) ==
    /\ cmd.handler = "mergeCommand"
    /\ cmd.merge = "running"
    /\ cmd' = [cmd EXCEPT !.merge = IF code = 0 THEN "succeeded" ELSE "failed"]
    /\ UNCHANGED <<install, files>>
    /\ UNCHANGED <<termVars, invokerVars, parserVars, probeVars>>

\* container-use.merge from the prompt's answer on.
MergeDeletionPromptSettles(action) ==
    /\ cmd.pc = "prompting"
    /\ cmd.handler = "mergeCommand"
    /\ cmd' = IF action = DELETE_ENVIRONMENT_ACTION
              THEN LaunchRun([cmd EXCEPT !.action = action], "delete", cmd.environmentId)
              ELSE [cmd EXCEPT !.action = action, !.pc = "done"]
    /\ UNCHANGED <<install, files>>
    /\ UNCHANGED <<termVars, invokerVars, parserVars, probeVars>>

\* container-use.merge from the result of cli.run(['delete', name]) on.
MergeDeleteSettles(code, stdout, stderr) ==
    /\ cmd.pc = "running"
    /\ cmd.handler = "mergeCommand"
    /\ code = ENOENT => stdout = <<>> /\ stderr = <<>>
    /\ LET r == RunResult(code, stdout, stderr)
           c == [cmd EXCEPT !.result = r,
                            !.tool = [code |-> code, stdout |-> stdout, stderr |-> stderr],
                            !.pc = "done"]
       IN  cmd' = IF ~r.success \/ r.exitCode # 0
                  THEN [c EXCEPT !.shown = Append(@, Message("error",
                                     <<"Failed to delete environment: ">> \o r.stderr))]
                  ELSE [c EXCEPT !.shown = Append(@, Message("info",
                                     <<"Environment has been deleted successfully.">>))]
    /\ UNCHANGED <<install, files>>
    /\ UNCHANGED <<termVars, invokerVars, parserVars, probeVars>>

PromptActions == {DELETE_ENVIRONMENT_ACTION, KEEP_ENVIRONMENT_ACTION, DISMISSED}

NextCommands ==
    \/ \E name \in OneShotCommands, item \in ItemIds \cup {NoItem} :
          HandleEnvironment(name, item)
    \/ /\ cmd.pc = "loading"
       /\ \E ls \in ListOutputs, code \in RunCodes, rejects \in BOOLEAN :
             EnvironmentsSettle(ls, code, rejects)
    \/ \E k \in 0..MaxListed : QuickPickSettles(k)
    \/ \E code \in RunCodes, stdout \in ToolStdouts, stderr \in ToolStderrs :
          RunSettles(code, stdout, stderr)
    \/ \E action \in PromptActions : DeletionPromptSettles(action)
    \/ MergeCommand
    \/ /\ cmd.pc = "loading"
       /\ \E ls \in ListOutputs, code \in RunCodes : MergeEnvironmentsSettle(ls, code)
    \/ \E k \in 0..MaxListed : MergeQuickPickSettles(k)
    \/ \E code \in ExitCodes : MergeInTerminalEnds(code)
    \/ \E action \in PromptActions : MergeDeletionPromptSettles(action)
    \/ \E code \in RunCodes, stdout \in ToolStdouts, stderr \in ToolStderrs :
          MergeDeleteSettles(code, stdout, stderr)

SpecCommands == Init /\ [][NextCommands]_vars

\* --------------------------------------------- workspace file commands

ADD_INSTRUCTIONS == "Add Instructions"
OVERWRITE == "Overwrite"
KEEP_EXISTING == "Keep Existing"

\* handleExistingFile: `action === ACTION_BUTTONS.OVERWRITE`
ShouldOverwriteUnlessKept(action) == action # KEEP_EXISTING
ShouldOverwrite(action) == action = OVERWRITE

\* addCopilotInstructions up to its first prompt: without a workspace folder
\* it shows an error; when the file exists it asks whether to overwrite it,
\* and otherwise whether to add the instructions.
AddCopilotInstructions(workspace) ==
    /\ files.pc \in {"idle", "done"}
    /\ LET exists == files.instructions # "absent"
           f == [IdleFiles(files.instructions, files.mcp) EXCEPT
                    !.command = "copilot", !.workspace = workspace]
       IN  files' =
             IF ~workspace
             THEN [f EXCEPT !.shown = <<Message("error", <<"No workspace folder found. Please open a workspace first.">>)>>,
                            !.pc = "done"]
             ELSE IF exists
             THEN [f EXCEPT !.exists = TRUE,
                            !.shown = <<Message("warning", <<"Instructions file already exists. Would you like to overwrite it?">>)>>,
                            !.pc = "existing"]
             ELSE [f EXCEPT !.shown = <<Message("info", <<"Would you like to add Container Use instructions to your workspace?">>)>>,
                            !.pc = "adding"]
    /\ UNCHANGED <<cmd, install>>
    /\ UNCHANGED <<termVars, invokerVars, parserVars, probeVars>>

\* addCopilotInstructions from the answer to 'already exists' on.
ExistingFilePromptSettles(action) ==
    /\ files.pc = "existing"
    /\ files' =
         IF ShouldOverwrite(action)
         THEN [files EXCEPT !.overwrite = action,
                            !.shown = Append(@, Message("info", <<"Would you like to add Container Use instructions to your workspace?">>)),
                            !.pc = "adding"]
         ELSE [files EXCEPT !.overwrite = action, !.pc = "done"]
    /\ UNCHANGED <<cmd, install>>
    /\ UNCHANGED <<termVars, invokerVars, parserVars, probeVars>>

\* addCopilotInstructions from the answer to 'add instructions' on: the file
\* is written, or writing it fails.
InstructionsPromptSettles(action, written) ==
    /\ files.pc = "adding"
    /\ files' =
         IF action # ADD_INSTRUCTIONS
         THEN [files EXCEPT !.action = action, !.pc = "done"]
         ELSE IF written
         THEN [files EXCEPT !.action = action, !.instructions = "written",
                            !.wrote = TRUE,
                            !.shown = Append(@, Message("info",
                                IF files.exists
                                THEN <<"Container Use instructions have been updated!">>
                                ELSE <<"Container Use instructions have been added to your workspace!">>)),
                            !.pc = "done"]
         ELSE [files EXCEPT !.action = action,
                            !.shown = Append(@, Message("error",
                                <<"Failed to create instructions file", ": ", "Error">>)),
                            !.pc = "done"]
    /\ UNCHANGED <<cmd, install>>
    /\ UNCHANGED <<termVars, invokerVars, parserVars, probeVars>>

\* The configuration addMcpServerConfig starts from: the one in the file, or
\* an empty one when the file is missing or is not a configuration.
ExistingConfig(mcp) ==
    IF mcp.state = "valid" THEN mcp ELSE McpConfiguration(FALSE, "none")
HasServer(config) == config.entry # "none"
\* `existingConfig.servers[SERVER_NAME] = DEFAULT_SERVER_CONFIG`, written back.
WithDefaultServer(config) == [config EXCEPT !.entry = "default"]
McpSuccess == Message("info", <<"Container Use MCP server configuration added successfully!">>)
McpFailure == Message("error", <<"Failed to add MCP configuration", ": ", "Error">>)

\* addMcpServerConfig from the write on, and what the command shows after it.
WriteMcpConfig(f, written) ==
    IF written
    THEN [f EXCEPT !.mcp = WithDefaultServer(ExistingConfig(f.mcp)),
                   !.wrote = TRUE,
                   !.shown = Append(@, McpSuccess),
                   !.pc = "done"]
    ELSE [f EXCEPT !.shown = Append(@, McpFailure), !.pc = "done"]

\* container-use.addMcpConfig up to the prompt of addMcpServerConfig, or,
\* when there is no container-use server in the file yet, to its end.
AddMcpConfig(workspace, written) ==
    /\ files.pc \in {"idle", "done"}
    /\ LET f == [IdleFiles(files.instructions, files.mcp) EXCEPT
                    !.command = "mcp", !.workspace = workspace]
       IN  files' =
             IF ~workspace
             THEN [f EXCEPT !.shown = <<Message("error", <<"No workspace folder found. Please open a workspace first.">>)>>,
                            !.pc = "done"]
             ELSE IF HasServer(ExistingConfig(files.mcp))
             THEN [f EXCEPT !.exists = TRUE,
                            !.shown = <<Message("warning", <<"Container Use MCP server configuration already exists. Do you want to overwrite it?">>)>>,
                            !.pc = "overwriting"]
             ELSE WriteMcpConfig(f, written)
    /\ UNCHANGED <<cmd, install>>
    /\ UNCHANGED <<termVars, invokerVars, parserVars, probeVars>>

\* container-use.addMcpConfig from the answer to the prompt on: anything but
\* 'Yes' returns from addMcpServerConfig, and the command goes on after it.
McpPromptSettles(action, written) ==
    /\ files.pc = "overwriting"
    /\ files' =
         IF action # "Yes"
         THEN [files EXCEPT !.overwrite = action,
                            !.shown = Append(@, McpSuccess),
                            !.pc = "done"]
         ELSE WriteMcpConfig([files EXCEPT !.overwrite = action], written)
    /\ UNCHANGED <<cmd, install>>
    /\ UNCHANGED <<termVars, invokerVars, parserVars, probeVars>>

\* The user, or another tool, edits .vscode/mcp.json.
McpFileEdited(mcp) ==
    /\ files.mcp # mcp
    /\ files' = [files EXCEPT !.mcp = mcp]
    /\ UNCHANGED <<cmd, install>>
    /\ UNCHANGED <<termVars, invokerVars, parserVars, probeVars>>

NextFiles ==
    \/ \E workspace \in BOOLEAN : AddCopilotInstructions(workspace)
    \/ \E action \in {OVERWRITE, KEEP_EXISTING, DISMISSED} : ExistingFilePromptSettles(action)
    \/ \E action \in {ADD_INSTRUCTIONS, CANCEL, DISMISSED}, written \in BOOLEAN :
          InstructionsPromptSettles(action, written)
    \/ \E workspace, written \in BOOLEAN : AddMcpConfig(workspace, written)
    \/ \E action \in {"Yes", "No", DISMISSED}, written \in BOOLEAN :
          McpPromptSettles(action, written)
    \/ \E mcp \in McpFiles : McpFileEdited(mcp)

SpecFiles == Init /\ [][NextFiles]_vars

\* ------------------------------------------------- installation checks

MaxNotices == 2
INSTALL_NOW == "Install Now"
DONT_SHOW_AGAIN == "Don't Show Again"
REMIND_ME_LATER == "Remind Me Later"

\* The install notice is shown: one more is open.
ShowNotice(i) ==
    [i EXCEPT !.notices = @ + 1, !.check.showed = TRUE, !.check.pc = "done"]

\* A check that takes the notice as never suppressed.
SuppressedNever(by, suppressedAtStart, suppressedNow) == FALSE
\* The preference as the check reads it: PromptToInstall.show reads it
\* before it looks for the tool, checkInstallationAndPrompt after.
Suppressed(by, suppressedAtStart, suppressedNow) ==
    IF by = "show" THEN suppressedAtStart ELSE suppressedNow

\* PromptToInstall.show and checkInstallationAndPrompt up to the await of the
\* probe; show returns at once when the notice is suppressed.
InstallationCheck(by) ==
    /\ install.check.pc \in {"idle", "done"}
    /\ install.notices < MaxNotices
    /\ LET check == [IdleCheck EXCEPT !.by = by, !.startSuppress = install.suppress]
       IN  install' =
             IF by = "show" /\ Suppressed(by, install.suppress, install.suppress)
             THEN [install EXCEPT !.check = [check EXCEPT !.pc = "done"]]
             ELSE [install EXCEPT !.check = [check EXCEPT !.pc = "probing"]]
    /\ UNCHANGED <<cmd, files>>
    /\ UNCHANGED <<termVars, invokerVars, parserVars, probeVars>>

\* The probe settles: a tool that is missing gets the notice unless the
\* preference suppresses it.
ProbeSettles(installed) ==
    /\ install.check.pc = "probing"
    /\ LET i == [install EXCEPT !.check.found = installed]
       IN  install' =
             IF installed
             THEN [i EXCEPT !.check.pc = "done"]
             ELSE IF Suppressed(install.check.by, install.check.startSuppress,
                                install.suppress)
             THEN [i EXCEPT !.check.pc = "done"]
             ELSE ShowNotice(i)
    /\ UNCHANGED <<cmd, files>>
    /\ UNCHANGED <<termVars, invokerVars, parserVars, probeVars>>

\* The user answers an open notice, or dismisses it: "Don't Show Again" sets
\* the preference.
NoticeSettles(response) ==
    /\ install.notices > 0
    /\ install' =
         IF response = DONT_SHOW_AGAIN
         THEN [install EXCEPT !.notices = @ - 1, !.suppress = TRUE,
                              !.check.events = IF install.check.pc = "probing"
                                               THEN @ \cup {"choice"} ELSE @]
         ELSE [install EXCEPT !.notices = @ - 1]
    /\ UNCHANGED <<cmd, files>>
    /\ UNCHANGED <<termVars, invokerVars, parserVars, probeVars>>

\* container-use.resetPreferences: the preference is set to undefined.
ResetPreferences ==
    /\ install' = [install EXCEPT !.suppress = FALSE,
                                  !.check.events = IF install.check.pc = "probing"
                                                   THEN @ \cup {"reset"} ELSE @]
    /\ UNCHANGED <<cmd, files>>
    /\ UNCHANGED <<termVars, invokerVars, parserVars, probeVars>>

\* `!cli.isInstalled()`: the promise isInstalled returns is not awaited,
\* and a promise is truthy whatever it resolves to.
NotAwaited(promised) == TRUE

\* container-use.list: the check, and then the environments are fetched.
ListCommand(installed) ==
    /\ install.command.pc \in {"idle", "done"}
    /\ install' = [install EXCEPT !.command =
           IF ~NotAwaited(installed)
           THEN [IdleChecked EXCEPT !.name = "list", !.detected = installed,
                    !.shown = <<Message("error", <<"Container Use is not installed. Please install it first.">>)>>,
                    !.pc = "done"]
           ELSE [IdleChecked EXCEPT !.name = "list", !.detected = installed,
                    !.went = TRUE, !.pc = "done"]]
    /\ UNCHANGED <<cmd, files>>
    /\ UNCHANGED <<termVars, invokerVars, parserVars, probeVars>>

\* The command goes on only when ensureInstalled returned true.
GoesOn(ensured) == ensured

\* container-use.watch up to the prompt of ensureInstalled, or, when the tool
\* is installed, to its end: the terminal is created and sent `cu watch`.
EnsureInstalled(installed) ==
    /\ install.command.pc \in {"idle", "done"}
    /\ install' = [install EXCEPT !.command =
           IF installed
           THEN [IdleChecked EXCEPT !.name = "watch", !.detected = TRUE,
                                    !.went = GoesOn(TRUE), !.pc = "done"]
           ELSE [IdleChecked EXCEPT !.name = "watch", !.detected = FALSE,
                    !.shown = <<Message("warning", <<"Container Use is not installed. This command requires the Container Use binary.">>)>>,
                    !.pc = "prompting"]]
    /\ UNCHANGED <<cmd, files>>
    /\ UNCHANGED <<termVars, invokerVars, parserVars, probeVars>>

\* ensureInstalled from the answer on: 'Install Now' runs the install command
\* and checks again; anything else returns false.
EnsurePromptSettles(response, installedAfter) ==
    /\ install.command.pc = "prompting"
    /\ response # INSTALL_NOW => ~installedAfter
    /\ install' = [install EXCEPT !.command =
           IF response = INSTALL_NOW
           THEN [@ EXCEPT !.detected = installedAfter,
                          !.went = GoesOn(installedAfter), !.pc = "done"]
           ELSE [@ EXCEPT !.went = GoesOn(FALSE), !.pc = "done"]]
    /\ UNCHANGED <<cmd, files>>
    /\ UNCHANGED <<termVars, invokerVars, parserVars, probeVars>>

NextInstall ==
    \/ \E by \in {"show", "activate"} : InstallationCheck(by)
    \/ \E installed \in BOOLEAN : ProbeSettles(installed)
    \/ \E response \in {INSTALL_NOW, DONT_SHOW_AGAIN, REMIND_ME_LATER, DISMISSED} :
          NoticeSettles(response)
    \/ ResetPreferences
    \/ \E installed \in BOOLEAN : ListCommand(installed)
    \/ \E installed \in BOOLEAN : EnsureInstalled(installed)
    \/ \E response \in {INSTALL_NOW, CANCEL, DISMISSED}, installedAfter \in BOOLEAN :
          EnsurePromptSettles(response, installedAfter)

SpecInstall == Init /\ [][NextInstall]_vars

\* ------------------------------------------------------------ the claims

IsPrefix(p, q) == Len(p) <= Len(q) /\ \A k \in 1..Len(p) : p[k] = q[k]

\* What call i did, in order.
TraceOf(i) == SelectSeq(log, LAMBDA e : e.inv = i)
Has(i, op) == \E k \in 1..Len(log) : log[k].inv = i /\ log[k].op = op
Answered(i, action) ==
    \E k \in 1..Len(log) :
        log[k].inv = i /\ log[k].op = "answer" /\ log[k].text = <<action>>
Declined(i) == Answered(i, CANCEL) \/ Answered(i, DISMISSED)

InterruptionTexts == {CTRL_C, CLEAR_LINE, EXIT_COMMAND, CLEAR_COMMAND}

\* C1: a call that found the session busy and whose prompt the user declined
\* (Cancel) or dismissed has sent nothing to the session, neither an
\* interruption text nor any part of its command, and has not shown it; and
\* it has come to its end.
C1_DeclineSendsNothing ==
    \A i \in Calls :
        Declined(i) =>
            /\ Has(i, "prompt")
            /\ ~Has(i, "send")
            /\ ~Has(i, "show")
            /\ call[i].pc = "done"

C1_Witness ==
    \E i \in Calls : Answered(i, DISMISSED) /\ call[i].pc = "done"

\* What a call does from the user's confirmation on, as <<op, text>> pairs.
OpText(e) == <<e.op, e.text>>
AfterAnswer(i) ==
    LET tr == TraceOf(i)
        at == CHOOSE k \in 1..Len(tr) : tr[k].op = "answer"
    IN  [k \in 1..(Len(tr) - at) |-> OpText(tr[at + k])]
ConfirmedRun(environmentId) ==
    << <<"send", <<"\\x03">> >>, <<"timer", <<"100">> >>,
       <<"send", <<"\\x03">> >>, <<"timer", <<"100">> >>,
       <<"send", <<"\\x15">> >>, <<"timer", <<"100">> >>,
       <<"send", <<"exit">> >>,  <<"timer", <<"200">> >>,
       <<"send", <<"clear">> >>, <<"timer", <<"200">> >>,
       <<"send", <<"cu", "terminal", environmentId>> >>,
       <<"show", <<>> >> >>

\* C2: after the user confirmed the interruption, what the call does is, in
\* this order and with nothing left out or repeated: interrupt, interrupt,
\* line-clear, exit, clear and then its command, each send but the first
\* after the settle delay of the one before it (100, 100, 100, 200, 200 ms),
\* and the session is shown last; all of it on the one handle the call holds.
\* While the call is under way it has done a proper prefix of this.
C2_ConfirmedSequence ==
    \A i \in Calls :
        Answered(i, INTERRUPT_PROCESS) =>
            LET did == AfterAnswer(i)
                all == ConfirmedRun(call[i].environmentId)
            IN  /\ IsPrefix(did, all)
                /\ (call[i].pc = "done") <=> (did = all)
                /\ \A k \in 1..Len(log) :
                       log[k].inv = i => log[k].term = call[i].terminal

C2_Witness ==
    \E i \in Calls :
        /\ Answered(i, INTERRUPT_PROCESS)
        /\ call[i].pc = "done"
        /\ Len(AfterAnswer(i)) = 12

\* C3: every interrupt, line-clear, exit or clear sent to a session comes
\* after the busy prompt of the same call and after the user's answer
\* "Interrupt Process" to it; a call answered with Cancel or by dismissal
\* never sends one.
C3_InterruptOnlyAfterConfirmation ==
    /\ \A k \in 1..Len(log) :
          (log[k].op = "send" /\ log[k].text \in InterruptionTexts) =>
              \E q \in 1..(k - 1) :
                  /\ log[q].inv = log[k].inv
                  /\ log[q].op = "answer"
                  /\ log[q].text = <<INTERRUPT_PROCESS>>
                  /\ \E p \in 1..(q - 1) :
                         log[p].inv = log[k].inv /\ log[p].op = "prompt"
    /\ \A i \in Calls :
          Declined(i) =>
              \A k \in 1..Len(log) :
                  (log[k].inv = i /\ log[k].op = "send")
                      => log[k].text \notin InterruptionTexts

C3_Witness ==
    /\ \E k \in 1..Len(log) : log[k].op = "send" /\ log[k].text = CTRL_C
    /\ \E i \in Calls : Answered(i, CANCEL)

\* C4: a terminal command issued when no open terminal carries the shared
\* name creates one, does not probe it, shows no prompt, waits for nothing
\* and sends its command to the terminal it created, in the same step.
C4_NewSessionNotProbed ==
    \A i \in Calls :
        (call[i].kind = "terminal" /\ ~call[i].sessionExisted) =>
            /\ call[i].isNewlyCreated
            /\ call[i].pc = "done"
            /\ [k \in 1..Len(TraceOf(i)) |-> OpText(TraceOf(i)[k])]
                 = << <<"create", <<>> >>,
                      <<"send", <<"cu", "terminal", call[i].environmentId>> >>,
                      <<"show", <<>> >> >>
            /\ \A k \in 1..Len(log) :
                   log[k].inv = i => log[k].term = call[i].terminal /\ log[k].live

\* The shared session was closed before this command, which creates a new one.
C4_Witness ==
    \E i \in Calls :
        /\ call[i].kind = "terminal"
        /\ ~call[i].sessionExisted
        /\ call[i].pc = "done"
        /\ call[i].terminal > 1

\* C5: at most one open terminal carries the shared name, and a call creates
\* a terminal only when none carried it at the moment of the call.
C5_AtMostOneSharedSession ==
    /\ Cardinality(SharedSessions) <= 1
    /\ \A i \in Calls : Has(i, "create") => ~call[i].sessionExisted

\* C6: whenever busy detection answers busy, the terminal exposes shell
\* integration and a command is executing in it; a terminal without shell
\* integration and a terminal at its prompt are reported not busy.
C6_BusyOnlyWhenExecuting ==
    \A k \in 1..Len(log) :
        (log[k].op = "probe" /\ log[k].text[1] = "busy") =>
            log[k].text[2] = "integration" /\ log[k].text[3] = "executing"

\* C7: from a call's first interrupt to its command text, every text sent to
\* that terminal is the call's own.
C7_SequenceContiguous ==
    \A j, m, k \in 1..Len(log) :
        ( /\ j < m /\ m < k
          /\ log[j].op = "send" /\ log[j].text = CTRL_C
          /\ log[k].op = "send" /\ log[k].inv = log[j].inv
          /\ log[m].op = "send" /\ log[m].term = log[j].term )
        => log[m].inv = log[j].inv

\* C8: every text is sent to a terminal that is open when it is sent.
C8_NoSendToClosedSession ==
    \A k \in 1..Len(log) : log[k].op = "send" => log[k].live

\* trimmed is str without its leading and trailing whitespace, and nothing else
\* of str is missing from it.
IsTrimOf(trimmed, str) ==
    \E a \in 0..Len(str) : \E b \in a..Len(str) :
        /\ trimmed = SubSeq(str, a + 1, b)
        /\ \A k \in 1..a : IsWhitespace(str[k])
        /\ \A k \in (b + 1)..Len(str) : IsWhitespace(str[k])
        /\ trimmed = <<>> \/ (~IsWhitespace(str[a + 1]) /\ ~IsWhitespace(str[b]))

\* The invocation returned a result that has a success field.
ReportsSuccess == result.kind \in {"CommandResult", "CliResult"}

\* The child was launched, ran to its end by itself and exited with code 0.
CompletedWithZero == child.state = "exited" /\ child.code = 0

MessageOf(r) == IF r.kind = "CliResult" THEN r.error ELSE r.stderr
NamesTimeout(message) ==
    \E k \in 1..Len(message) : message[k] = SecondsText(inv.timeout)
\* The timeout elapsed while the child had not finished.
TimedOut == child.state \in {"killed", "killedClosed"}

\* C11: when the timeout elapsed on a child that had not finished, a result
\* that has been returned has success = false and a message that names the
\* timeout duration, and the child has ended by the time it is returned.
C11_TimeoutKillsAndReports ==
    (TimedOut /\ result # Pending) =>
        /\ IF ReportsSuccess THEN result.success = FALSE ELSE result.exitCode # 0
        /\ NamesTimeout(MessageOf(result))
        /\ child.state = "killedClosed"

\* The result the event of a step of executeCommand carries: the child's
\* close, its error event, or the timer.
CloseHappens == child.state = "running" /\ child'.state = "exited"
KilledCloseHappens == child.state = "killed" /\ child'.state = "killedClosed"
ErrorHappens == child.state = "spawnError" /\ child'.state = "errored"
TimeoutHappens == inv.timer = "armed" /\ inv'.timer = "fired"

\* C12: the promise of an invocation settles once: a result that has been
\* delivered is never changed by an event that arrives later, and the result
\* executeCommand delivers is the one of the first of the child's close, the
\* child's error event and the timeout to occur.
C12_FirstEventDecides ==
    [][/\ result # Pending => result' = result
       /\ (inv.api = "executeCommand" /\ result = Pending /\ result' # Pending) =>
             /\ CloseHappens =>
                    result' = CloseResult(child'.code, child.stdout, child.stderr)
             /\ KilledCloseHappens =>
                    result' = CloseResult(NoCode, child.stdout, child.stderr)
             /\ ErrorHappens =>
                    result' = ErrorResult(SpawnError, child.stdout, child.stderr)
             /\ TimeoutHappens =>
                    result' = TimeoutResult(inv.timeout, child.stdout, child.stderr)
             /\ CloseHappens \/ KilledCloseHappens \/ ErrorHappens \/ TimeoutHappens
       /\ (inv.api = "executeCommand" /\ result = Pending /\ result' = Pending) =>
             ~(CloseHappens \/ KilledCloseHappens \/ ErrorHappens \/ TimeoutHappens)]_vars

\* The timeout result stands after the killed child's close event arrived,
\* and a close result stands after the timer, which is never cleared, fired.
C12_Witness ==
    /\ inv.api = "executeCommand"
    /\ inv.timer = "fired"
    /\ \/ child.state = "killedClosed" /\ result = TimeoutResult(inv.timeout, child.stdout, child.stderr)
       \/ child.state = "exited" /\ result = CloseResult(child.code, child.stdout, child.stderr)

\* The directory the invocation names is missing or does not exist.
BadDirectory == inv.directory = NoDirectory \/ ~DirectoryExists(inv.directory)
\* A failure of the tool: the launch threw or failed, the child exited with a
\* code other than 0, or the timeout ended it.
LaunchThrew ==
    inv.api # "none" /\ child.state = "none" /\ ~(inv.api = "runChecked" /\ BadDirectory)
ToolFailed ==
    \/ LaunchThrew
    \/ child.state \in {"errored", "killedClosed"}
    \/ child.state = "exited" /\ child.code # 0
    \/ child.state = "killed" /\ inv.api = "executeCommand"
Failed(r) == IF "success" \in DOMAIN r THEN ~r.success ELSE r.exitCode # 0

WorkingDirectory ==
    IF inv.api = "run" THEN FirstSet(inv.directory, ProcessCwd) ELSE inv.directory
NoWorkingDirectory ==
    WorkingDirectory = NoDirectory \/ ~DirectoryExists(WorkingDirectory)

\* C14: when the working directory of an invocation of run (the one the
\* caller passes, else the configured one) is missing or does not exist, the
\* call raises an error and no child process is launched for it.
C14_MissingDirectoryRaises ==
    (inv.api \in ExecApis /\ NoWorkingDirectory) =>
        /\ result # Pending => result.kind = "rejected"
        /\ child.state \in {"none", "spawnError", "errored"}

\* The text occurs in the combined output of the child, whatever its case.
SameIgnoringCase(a, b) == a = b \/ {a, b} = {"stdio", "STDIO"}
OutputContains(text) ==
    LET output == child.stdout \o child.stderr
    IN  \E k \in 1..Len(output) : SameIgnoringCase(output[k], text)

\* C15: an availability check (isInstalled, ensureBinaryExists) that returned
\* true ran a help invocation whose combined stdout and stderr contain the
\* marker; one whose help invocation exited 0 without the marker in its
\* output returned false.
C15_MarkerRequired ==
    /\ probe.returned =>
          (probe.installed => OutputContains(VALIDATION_TEXT))
    /\ (inv.api = "ensureBinaryExists" /\ result # Pending) =>
          (result.value => OutputContains(VALIDATION_TEXT))

\* C16: exists never rejects, and it resolves true exactly when the child
\* closed with exit code 0 (before the timeout, with no spawn exception and
\* no error event) and, if a required text was given, stdout followed by
\* stderr contains that text, compared without regard to case.
C16_ExistsIff ==
    (inv.api = "exists" /\ result # Pending) =>
        /\ result.kind = "boolean"
        /\ result.value <=>
              /\ child.state = "exited" /\ child.code = 0
              /\ probe.requiredText # NoRequiredText =>
                     OutputContains(probe.requiredText[1])

\* exists resolved true on an output that has the required text in capitals
\* only, and the timer that fired afterwards left the result as it was.
C16_Witness ==
    /\ inv.api = "exists"
    /\ result = Boolean(TRUE)
    /\ probe.requiredText = <<"stdio">>
    /\ ~Includes(child.stdout \o child.stderr, "stdio")
    /\ inv.timer = "fired"

\* The columns of a trimmed line, told from the positions of its characters:
\* a character is in a gap when it is whitespace next to whitespace; a column
\* is what stands between two gaps.
InGap(t, k) ==
    /\ IsWhitespace(t[k])
    /\ \/ k > 1 /\ IsWhitespace(t[k - 1])
       \/ k < Len(t) /\ IsWhitespace(t[k + 1])
GapStarts(t) == {k \in 1..Len(t) : InGap(t, k) /\ (k = 1 \/ ~InGap(t, k - 1))}
ColumnCount(t) == Cardinality(GapStarts(t)) + 1
ColumnOf(t, k) == Cardinality({j \in GapStarts(t) : j < k})
ColumnText(t, c) ==
    LET at == {k \in 1..Len(t) : ~InGap(t, k) /\ ColumnOf(t, k) = c}
        Min == CHOOSE k \in at : \A j \in at : k <= j
        Max == CHOOSE k \in at : \A j \in at : k >= j
    IN  IF at = {} THEN <<>> ELSE SubSeq(t, Min, Max)

\* A blank line, a header line and a data line of the list output.  A header
\* begins with ID and has TITLE, CREATED or UPDATED further on.
IsBlank(l) == \A k \in 1..Len(l) : IsWhitespace(l[k])
IsHeader(l) ==
    LET t == Trim(l)
    IN  /\ t # <<>>
        /\ t[1] = "ID"
        /\ \E k \in 2..Len(t) : t[k] \in {"TITLE", "CREATED", "UPDATED"}
IsData(l) == ~IsBlank(l) /\ ~IsHeader(l) /\ ColumnCount(Trim(l)) >= 2
RemoveAt(ls, k) == SubSeq(ls, 1, k - 1) \o SubSeq(ls, k + 1, Len(ls))
ParsedLines == parsed.op \in {"parseEnvironmentLines", "environments"}

\* C17: a blank line and a header line give no record: the output has at most
\* one record per line that is neither, and it is the output of the same
\* lines with any blank or header line taken out; a header followed by one
\* data line parses to exactly one record, the one of the data line.
C17_NoRecordFromBlankOrHeader ==
    ParsedLines =>
        /\ Len(parsed.value) <=
               Cardinality({k \in 1..Len(lines) : ~IsBlank(lines[k]) /\ ~IsHeader(lines[k])})
        /\ \A k \in 1..Len(lines) :
               (IsBlank(lines[k]) \/ IsHeader(lines[k])) =>
                   /\ ParseEnvironmentLines(<<lines[k]>>) = <<>>
                   /\ ParseEnvironmentLines(RemoveAt(lines, k)) = parsed.value
        /\ (Len(lines) = 2 /\ IsHeader(lines[1]) /\ IsData(lines[2])) =>
               /\ Len(parsed.value) = 1
               /\ parsed.value[1].id = ColumnText(Trim(lines[2]), 0)
               /\ parsed.value[1].title = ColumnText(Trim(lines[2]), 1)

\* The header with its four titles, then the row of env-1.
C17_Witness ==
    /\ ParsedLines
    /\ Len(lines) = 2
    /\ Len(lines[1]) = 10 /\ IsHeader(lines[1])
    /\ Len(parsed.value) = 1
    /\ parsed.value[1] = [id |-> <<"env-1">>, name |-> <<"My", Space, "Env">>,
                          title |-> <<"My", Space, "Env">>,
                          created |-> <<"2024-01-01">>, updated |-> <<"2024-01-02">>]

\* The k-th data line of the input.
DataLines == {k \in 1..Len(lines) : IsData(lines[k])}
DataLine(j) == CHOOSE k \in DataLines : Cardinality({i \in DataLines : i <= k}) = j

C19_RecordIffTwoColumns ==
    (parsed.op = "parseEnvironmentLine" /\ ~IsHeader(line)) =>
        LET t == Trim(line)
            n == ColumnCount(t)
            env == parsed.value
        IN  /\ (env # Null) <=> (~IsBlank(line) /\ n >= 2)
            /\ (env # Null) =>
                  /\ env.id = ColumnText(t, 0)
                  /\ env.title = ColumnText(t, 1)
                  /\ env.name = env.title
                  /\ env.created = IF n >= 3 THEN ColumnText(t, 2) ELSE Undefined
                  /\ env.updated = IF n >= 4 THEN ColumnText(t, 3) ELSE Undefined

\* A line of five columns has been parsed, and its title has two words.
C19_Witness ==
    /\ parsed.op = "parseEnvironmentLine"
    /\ ColumnCount(Trim(line)) = 5
    /\ parsed.value # Null
    /\ Len(parsed.value.updated) = 1
    /\ parsed.value.created # parsed.value.updated

\* C20: the id of a record made from a row of the list output is not empty,
\* has no whitespace in it and is the first whitespace-delimited token of
\* the row.
FirstToken(l) ==
    LET t == TrimStart(l)
        n == CHOOSE k \in 0..Len(t) :
                 /\ \A j \in 1..k : ~IsWhitespace(t[j])
                 /\ k = Len(t) \/ IsWhitespace(t[k + 1])
    IN  SubSeq(t, 1, n)
C20_IdIsFirstToken ==
    /\ (parsed.op = "parseEnvironmentLine" /\ parsed.value # Null) =>
          /\ parsed.value.id # <<>>
          /\ \A k \in 1..Len(parsed.value.id) : ~IsWhitespace(parsed.value.id[k])
          /\ parsed.value.id = FirstToken(line)
    /\ parsed.op = "list" =>
          \A j \in 1..Len(parsed.value) :
              /\ parsed.value[j] # <<>>
              /\ parsed.value[j] = FirstToken(line)

\* A record written back as a row: its id, two spaces, its title.
Serialize(env) == env.id \o Gap \o env.title
Reparsed == ParseEnvironmentLines([k \in 1..Len(parsed.value) |-> Serialize(parsed.value[k])])
WellFormed == lines # <<>> /\ \A k \in 1..Len(lines) : IsData(lines[k])

\* C21, as amended: for well-formed data lines, parsing them, writing each
\* record back as id, two spaces, title, and parsing that again gives as many
\* records, in the same order, with the same id, name and title; created and
\* updated, which are not written back, are absent from the second parse, so
\* the records are the same only where the lines had two columns.
C21_RoundTripKeepsIdAndTitle ==
    (ParsedLines /\ WellFormed) =>
        /\ Len(Reparsed) = Len(parsed.value)
        /\ \A k \in 1..Len(parsed.value) :
               /\ Reparsed[k].id = parsed.value[k].id
               /\ Reparsed[k].title = parsed.value[k].title
               /\ Reparsed[k].name = parsed.value[k].name
               /\ Reparsed[k].created = Undefined
               /\ Reparsed[k].updated = Undefined
        /\ (\A k \in 1..Len(lines) : ColumnCount(Trim(lines[k])) = 2) =>
               Reparsed = parsed.value

\* Two data lines were parsed, one of them with a title of two words.
C21_Witness ==
    /\ parsed.op = "parseEnvironmentLines"
    /\ WellFormed
    /\ Len(parsed.value) = 2
    /\ parsed.value[1].id # parsed.value[2].id
    /\ \E k \in 1..2 : Len(parsed.value[k].title) = 3 /\ Reparsed[k] = parsed.value[k]

\* C21, as claimed: the second parse yields the same records as the first.
C21_AsClaimed ==
    (ParsedLines /\ WellFormed) => Reparsed = parsed.value

\* The text contains the part as a run of consecutive characters.
Contains(text, part) ==
    \E k \in 0..(Len(text) - Len(part)) : SubSeq(text, k + 1, k + Len(part)) = part
\* What the tool itself had to say: its stderr if it wrote any, else its stdout.
ToolText ==
    IF Trim(cmd.tool.stderr) # <<>> THEN Trim(cmd.tool.stderr) ELSE Trim(cmd.tool.stdout)
OneShotFailed ==
    /\ cmd.handler = "handle"
    /\ cmd.pc = "done"
    /\ cmd.result # Pending
    /\ ~cmd.result.success
LastShown == cmd.shown[Len(cmd.shown)]

\* C22: when delete, merge or checkout gets a failed result, the error
\* message shown contains the stderr text of the tool if it wrote any and
\* otherwise its stdout text: what the tool said is never replaced by a
\* message the invoker made up.
C22_ToolTextIsShown ==
    (OneShotFailed /\ ToolText # <<>>) =>
        /\ cmd.shown # <<>>
        /\ LastShown.kind = "error"
        /\ Contains(LastShown.text, ToolText)

\* The tool printed a header and two data rows, and nothing else.
HeaderAndTwoRows(ls) ==
    Len(ls) = 3 /\ IsHeader(ls[1]) /\ IsData(ls[2]) /\ IsData(ls[3])
LastRan == cmd.ran[Len(cmd.ran)]
ListedThenDeletedSecond ==
    /\ cmd.handler = "handle"
    /\ cmd.name = "delete"
    /\ cmd.merge = "none"
    /\ HeaderAndTwoRows(cmd.listed)
    /\ cmd.picked = 2

\* C23: list against a tool that prints a header and two data rows, the
\* second row selected, then delete against a tool that exits 0: there are
\* exactly two records, delete gets exactly the id of the second row as its
\* argument, and the result has success true.
C23_ListSelectDelete ==
    ListedThenDeletedSecond =>
        /\ Len(cmd.environments) = 2
        /\ cmd.environments[2].id = ColumnText(Trim(cmd.listed[3]), 0)
        /\ cmd.ran = <<[via |-> "run", args |-> <<"delete", cmd.environments[2].id>>]>>
        /\ (cmd.pc = "done" /\ cmd.tool.code = 0) =>
              /\ cmd.result.success = TRUE
              /\ cmd.result.exitCode = EXIT_SUCCESS
              /\ LastShown.kind = "info"
C23_Witness ==
    /\ ListedThenDeletedSecond
    /\ cmd.pc = "done"
    /\ cmd.tool.code = 0
    /\ cmd.result.success = TRUE
    /\ cmd.environments[1].id # cmd.environments[2].id
    /\ LastRan.args = <<"delete", <<"env-2">>>>

\* showEnvironmentQuickPick has come back from `await cli.environments()`.
Loaded == cmd.handler = "handle" /\ cmd.load # "none"
LoadedSome == cmd.load = "resolved" /\ Len(cmd.environments) >= 1

\* C24: showEnvironmentQuickPick shows the quick pick exactly when the
\* environments were loaded and there is at least one; for an empty list it
\* shows one information message and returns undefined, for a load error one
\* error message and undefined, for a cancelled pick undefined, and otherwise
\* the environment of the chosen item; it always returns.
C24_QuickPickIffLoadedSome ==
    Loaded =>
        /\ cmd.quickPickShown <=> LoadedSome
        /\ (cmd.load = "resolved" /\ Len(cmd.environments) = 0) =>
              /\ cmd.pc = "done"
              /\ Len(cmd.shown) = 1 /\ cmd.shown[1].kind = "info"
              /\ cmd.returned = UndefinedEnvironment
        /\ cmd.load = "rejected" =>
              /\ cmd.pc = "done"
              /\ Len(cmd.shown) = 1 /\ cmd.shown[1].kind = "error"
              /\ cmd.returned = UndefinedEnvironment
        /\ cmd.pc = "picking" => cmd.returned = NotReturned /\ cmd.shown = <<>>
        /\ (cmd.quickPickShown /\ cmd.pc # "picking") =>
              IF cmd.picked = 0
              THEN cmd.returned = UndefinedEnvironment /\ cmd.pc = "done" /\ cmd.ran = <<>>
              ELSE /\ cmd.picked \in 1..Len(cmd.environments)
                   /\ cmd.returned = cmd.environments[cmd.picked]
C24_Witness ==
    /\ Loaded
    /\ cmd.load = "rejected"
    /\ cmd.pc = "done"
    /\ cmd.returned = UndefinedEnvironment
    /\ ~cmd.quickPickShown
    /\ cmd.shown = <<Message("error", <<"Failed to load environments.", ": ", "Error">>)>>

\* The prompt that offers to delete the merged environment is open.
DeletePromptOpen == cmd.pc = "prompting"
\* A delete that follows a merge in the same invocation.
DeletesAfterMerge ==
    /\ cmd.merge # "none"
    /\ cmd.ran # <<>>
    /\ LastRan.args[1] = "delete"

\* C27: the prompt that offers to delete an environment after a merge is shown
\* only once the merge has completed with a successful result, never after a
\* failed merge or while the merge is still running, and the environment is
\* deleted only if the user then chooses the delete action.
C27_PromptOnlyAfterSuccessfulMerge ==
    /\ DeletePromptOpen => cmd.merge = "succeeded"
    /\ DeletesAfterMerge =>
          /\ cmd.action = DELETE_ENVIRONMENT_ACTION
          /\ cmd.merge = "succeeded"

WasShown(f, message) == \E k \in 1..Len(f.shown) : f.shown[k] = message

\* C25: the Copilot instructions file is written only if a workspace folder is
\* open, the user chose 'Add Instructions', and, when the file already
\* existed, the user first chose 'Overwrite'; with no workspace, a cancelled
\* or dismissed dialog or 'Keep Existing' nothing is written.
C25_WrittenOnlyWhenConfirmed ==
    files.command = "copilot" =>
        /\ files.wrote =>
              /\ files.workspace
              /\ files.action = ADD_INSTRUCTIONS
              /\ files.exists => files.overwrite = OVERWRITE
        /\ ( \/ ~files.workspace
             \/ files.action \in {CANCEL, DISMISSED}
             \/ files.overwrite \in {KEEP_EXISTING, DISMISSED} ) => ~files.wrote
        /\ files.pc \in {"existing", "adding"} => ~files.wrote
C25_Witness ==
    /\ files.command = "copilot"
    /\ files.pc = "done"
    /\ files.wrote
    /\ files.exists
    /\ files.overwrite = OVERWRITE
    /\ files.action = ADD_INSTRUCTIONS
    /\ files.instructions = "written"

\* C30: the message that the MCP server configuration was added is shown only
\* in an invocation that wrote .vscode/mcp.json; when the user declines to
\* overwrite an existing container-use server the file is not written and
\* that message is not shown.
C30_SuccessOnlyAfterWrite ==
    files.command = "mcp" =>
        /\ WasShown(files, McpSuccess) => files.wrote
        /\ files.overwrite \in {"No", DISMISSED} =>
              /\ ~files.wrote
              /\ ~WasShown(files, McpSuccess)

\* C26: a command goes on to invoke the tool or to send text to a terminal
\* only if its check found the tool installed in the same invocation; when
\* the tool is not detected the user is told or prompted and nothing else
\* is done.
C26_OnlyAfterDetected ==
    /\ install.command.went => install.command.detected
    /\ (install.command.pc = "done" /\ ~install.command.detected) =>
          /\ ~install.command.went
          /\ install.command.shown # <<>>

\* The check began while the notice was suppressed, and the preferences have
\* not been reset since.
SuppressedThroughout ==
    install.check.startSuppress /\ "reset" \notin install.check.events
\* The check began while the notice was not suppressed, and "Don't Show
\* Again" has not been chosen since.
ClearThroughout ==
    ~install.check.startSuppress /\ "choice" \notin install.check.events

\* C28: once the user has chosen "Don't Show Again", no installation check
\* that begins afterwards shows the install notice until the preferences
\* are reset; after a reset the next check that finds the tool missing shows
\* the notice again.
C28_SuppressedUntilReset ==
    /\ install.check.showed => ~SuppressedThroughout
    /\ ( /\ install.check.pc = "done"
         /\ ~install.check.found
         /\ ClearThroughout ) => install.check.showed
    /\ install.check.showed => ~install.check.found
C28_Witness ==
    /\ install.check.pc = "done"
    /\ install.check.by = "activate"
    /\ SuppressedThroughout
    /\ install.suppress
    /\ ~install.check.found
    /\ ~install.check.showed
    /\ install.notices = 0

\* The timer of the invocation fires: its callback runs, and kills the child.
TimerFires == inv.timer = "armed" /\ inv'.timer = "fired"

\* C29: a kill is issued only to a child that is still running: once the
\* close or the error event of a child has been delivered no kill is issued
\* for it, and the timer of an invocation that has finished does not fire.
C29_KillOnlyWhileRunning ==
    [][TimerFires => (child.state = "running" /\ result = Pending)]_vars

Next ==
    \/ \E i \in Calls, e \in EnvironmentIds : OpenTerminalForEnvironment(i, e)
    \/ \E i \in Calls, a \in PromptAnswers : HandleBusyTerminal(i, a)
    \/ \E i \in Calls : SettleDelayElapsed(i)
    \/ \E i \in Calls, installed \in BOOLEAN : WatchCommand(i, installed)
    \/ \E t \in TermIds \ {UserTerminal} : TerminalCloses(t)
    \/ \E t \in TermIds : ShellIntegrationActivates(t)
    \/ \E t \in TermIds : CwdReported(t)
    \/ \E t \in TermIds : ExecutionEnds(t)

Spec == Init /\ [][Next]_vars

====
